---- MODULE Spec2Model ----
(***************************************************************************)
(* thermostatd: the control-loop daemon of the home HVAC controller.       *)
(*                                                                         *)
(* Two tasks run under one tokio::try_join! (main.rs:99-102): the          *)
(* bus-event task (mqtt.rs run_mqtt_eventloop) and the decision task       *)
(* (scripting.rs run_script_loop).  They share CommonState (main.rs:56-65) *)
(* and interleave at their .await points only, so every action below is    *)
(* the code between two consecutive .await points of one task.             *)
(***************************************************************************)
EXTENDS Integers, Sequences, FiniteSets, TLC

\* ------------------------------------------------------------------ bounds
\* Wall clock (seconds) stops advancing at MaxTime.
MaxTime == 11
\* Number of bus messages the broker delivers in one behaviour.
MaxMsgs == 2

\* ------------------------------------------------------- program constants
\* scripting.rs:39   next_tick = Instant::now() + Duration::from_secs(1)
TickPeriod == 1
\* scripting.rs:199  next_evaluation = Instant::now() + Duration::from_secs(10)
EvalPeriod == 10

\* ------------------------------------------------------------- data model
\* models/src/hvac_request.rs:5-11
HvacRequest == {"Off", "Heat", "Cool"}

\* Option<T>
None == [some |-> FALSE]
Some(x) == [some |-> TRUE, val |-> x]

\* models/src/thermostatd.rs:21-26
OneshotOrdering == {"Less", "Greater"}

\* f64 / f32 values: a number or NaN.
NaN == [nan |-> TRUE, v |-> 0]
Num(n) == [nan |-> FALSE, v |-> n]

\* f64::partial_cmp: None when either side is NaN.
PartialCmp(a, b) ==
    IF a.nan \/ b.nan THEN None
    ELSE IF a.v < b.v THEN Some("Less")
    ELSE IF a.v > b.v THEN Some("Greater")
    ELSE Some("Equal")

\* HvacRequest::payload_str, hvac_request.rs:27-33
payload_str(c) ==
    CASE c = "Off" -> "off"
      [] c = "Heat" -> "heat"
      [] c = "Cool" -> "cool"

\* HvacRequest::from_payload / from_string, hvac_request.rs:14-25: only the
\* first byte of the payload decides, upper or lower case.
from_payload(p) ==
    IF Len(p) = 0 THEN None
    ELSE CASE p[1] \in {"o", "O"} -> Some("Off")
           [] p[1] \in {"h", "H"} -> Some("Heat")
           [] p[1] \in {"c", "C"} -> Some("Cool")
           [] OTHER -> None

\* Strings a script's evaluate() can return, as byte sequences.
Bytes(s) ==
    CASE s = "heat" -> <<"h", "e", "a", "t">>
      [] s = "cool" -> <<"c", "o", "o", "l">>
      [] s = "off"  -> <<"o", "f", "f">>
      [] s = "Hot"  -> <<"H", "o", "t">>
      [] s = "auto" -> <<"a", "u", "t", "o">>
      [] s = ""     -> << >>

\* A variant written as the Display name instead of the serde name.
SerdeName_display(x) == x

\* The serde names of the enum variants: rename_all = "snake_case" on
\* HvacRequest (hvac_request.rs:6), rename = "less" / "greater" on
\* OneshotOrdering (thermostatd.rs:21-26).
SerdeName(x) ==
    CASE x = "Off" -> "off"
      [] x = "Heat" -> "heat"
      [] x = "Cool" -> "cool"
      [] x = "Less" -> "less"
      [] x = "Greater" -> "greater"

\* serde_json::to_string of Option<TimedOverride> / Option<OneshotOverride>
\* (mqtt.rs:265, 279): JSON null for None, for Some an object whose members
\* are the struct's fields in declaration order, enum fields by serde name.
\* The text is determined by the JSON value, which is what is kept here.
JsonNull == [json |-> "null"]
to_json(opt) ==
    IF opt.some
    THEN [json |-> "object",
          fields |-> [k \in DOMAIN opt.val |->
                         IF k \in {"command", "comparison"} THEN SerdeName(opt.val[k])
                         ELSE opt.val[k]]]
    ELSE JsonNull

\* ------------------------------------------------ override-layer decisions
\* A timed override that never expires.
TimedActive_never_expires(to, t) == TRUE

\* The expiration test reversed.
TimedActive_reversed(to, t) == to.expiration < t

\* scripting.rs:129   timed_override.expiration > Utc::now()
TimedActive(to, t) == to.expiration > t

\* A oneshot override that is taken whatever the comparison gives.
OneshotHolds_never(comparison, ord) == FALSE

\* The wildcard arm taken only when the comparison is the opposite one, so
\* that equal values and NaN keep the override.
OneshotHolds_keeps_on_equal(comparison, ord) ==
    ~ \/ comparison = "Less" /\ ord = Some("Greater")
      \/ comparison = "Greater" /\ ord = Some("Less")

\* scripting.rs:141-155: the oneshot override keeps commanding exactly in the
\* two arms (Less, Some(Less)) and (Greater, Some(Greater)); the wildcard arm
\* clears it.
OneshotHolds(comparison, ord) ==
    \/ comparison = "Less" /\ ord = Some("Less")
    \/ comparison = "Greater" /\ ord = Some("Greater")

\* A commit that falls back to Off when no layer produced a call.
Commit_nil_resets(next_call, last) ==
    IF next_call.some THEN next_call.val ELSE "Off"

\* A gate that every iteration passes.
EvaluationDue_always(ne, t) == {TRUE}

\* scripting.rs:123   next_evaluation < Instant::now(), for a stored instant
\* ne and a clock that reads t.  The clock of the model counts whole ticks.
\* When the two agree at that granularity: an instant below EvalPeriod is the
\* one read at start (scripting.rs:37; every later one is a read plus
\* EvalPeriod), and the gate's read follows it, so the evaluation is due; for
\* every other instant which of the two is the later one is not determined,
\* and both outcomes are possible.
EvaluationDue(ne, t) ==
    IF ne < t THEN {TRUE}
    ELSE IF ne > t THEN {FALSE}
    ELSE IF ne < EvalPeriod THEN {TRUE}
    ELSE {TRUE, FALSE}

\* scripting.rs:184-189: the value last_call has after the commit.
Commit(next_call, last) ==
    IF next_call.some /\ next_call.val # last THEN next_call.val ELSE last

\* ------------------------------------------------------------ bus topics
\* main.rs:26-47, mod channels
HVAC_REMOTESTATE_SET == "test/thermostat/hvac/remotestate/set"
SCRIPT_DATA == "home/thermostatd/script"
SCRIPT_DATA_ERROR == "home/thermostatd/script/error"
TIMED_OVERRIDE == "home/thermostatd/timed_override"
ONESHOT_OVERRIDE == "home/thermostatd/oneshot_override"

\* One mqtt.publish(topic, qos, retain, payload) call.
Msg(topic, retain, payload) == [topic |-> topic, retain |-> retain, payload |-> payload]

\* Topics the daemon publishes retained messages on; Absent is a topic the
\* broker holds no retained message for.
RetainedTopics == {SCRIPT_DATA, SCRIPT_DATA_ERROR, TIMED_OVERRIDE, ONESHOT_OVERRIDE}
Absent == [absent |-> TRUE]

\* The broker after the publish of m.
Retain(r, m) == IF m.retain THEN [r EXCEPT ![m.topic] = m.payload] ELSE r

\* The broker after a step of the decision task that had published `before`
\* and has published `after`: a step ends at its first publish.
AfterPublish(r, before, after) ==
    IF Len(after) > Len(before) THEN Retain(r, after[Len(after)]) ELSE r

\* The relay-command topic after a step of the decision task that ends at
\* program point pcn having published p: the step has published the relay
\* command (scripting.rs:191-197) exactly when it ends at "sched".
AfterRelay(rel, pcn, p) == IF pcn = "sched" THEN p[Len(p)].payload ELSE rel

\* publish_timed_override, mqtt.rs:257-269: the cell's value as JSON, retained.
publish_timed_override(cell) == Msg(TIMED_OVERRIDE, TRUE, to_json(cell))

\* The oneshot cell published on the timed override's topic.
publish_oneshot_override_on_timed_topic(cell) == Msg(TIMED_OVERRIDE, TRUE, to_json(cell))

\* publish_oneshot_override, mqtt.rs:271-283
publish_oneshot_override(cell) == Msg(ONESHOT_OVERRIDE, TRUE, to_json(cell))

\* A script error that ends run_script_loop (an error returned with `?`).
AfterScriptError_stops(step) == "stopped"

\* Where run_script_loop goes on after the failure of a script step has been
\* published: break 'load_script (scripting.rs:60, 76, 92) leads to the
\* tick, a failed tick (107-121) to the evaluation gate, a failed evaluate
\* (166-180) to the commit.
AfterScriptError(step) ==
    CASE step \in {"test_script", "load_script", "init_script"} -> "tick"
      [] step = "tick_script" -> "gate"
      [] step = "evaluate_script" -> "commit"

\* Every failure reported as one of load_script.
ScriptError_always_load(step) ==
    [topic |-> "home/thermostatd/script/error", retain |-> TRUE,
     payload |-> [success |-> FALSE, error_at |-> "load_script"]]

\* The retained JSON a failing script step publishes, scripting.rs:48-58 etc.
ScriptError(step) == Msg(SCRIPT_DATA_ERROR, TRUE, [success |-> FALSE, error_at |-> step])
\* scripting.rs:94-103
ScriptSuccess == Msg(SCRIPT_DATA_ERROR, TRUE, [success |-> TRUE])

\* ---------------------------------------------------- the script sandbox
\* A Lua interpreter is modelled by what its three well-known globals are
\* bound to (scripting.rs:219, 226, 233 look them up by name).  "undef" is a
\* global that is not a function.
Globals == {"evaluate", "init", "tick"}
FreshLua == [g \in Globals |-> "undef"]

\* Script texts the operator can send.  Each is described by whether its
\* chunk compiles, what its top-level code binds, and whether the top-level
\* code can raise after the bindings are made.
\*   heat        function evaluate(s) return 'heat' end
\*   cool        function evaluate(s) return 'cool' end
\*   syntax      function evaluate(          -- does not compile
\*   init_fails  evaluate returns 'cool'; init(s) raises
\*   tick_fails  evaluate returns 'auto' (no HvacRequest); tick(s) raises
\*   probe       evaluate: s.probes.primary < 20 and 'heat' or nil
\*               (raises while the probe has no reading: nil < number)
\*   flaky       evaluate returns 'off' or raises depending on an external
\*               read; the chunk ends with a top-level statement that can
\*               raise after evaluate is bound
\*   subscriber  function evaluate(s) s.mqtt:subscribe('home/door')
\*               return 'heat' end
Scripts == {"heat", "cool", "syntax", "init_fails", "tick_fails", "probe", "flaky"}

\* Payloads of script/set; "heat" is the script the store holds at start.
ScriptPayloads == Scripts \ {"heat"}

Compiles(s) == s # "syntax"

ChunkDefs(s) ==
    CASE s = "heat"       -> [evaluate |-> "ret_heat"]
      [] s = "cool"       -> [evaluate |-> "ret_cool"]
      [] s = "init_fails" -> [evaluate |-> "ret_cool", init |-> "raise"]
      [] s = "tick_fails" -> [evaluate |-> "ret_auto", tick |-> "raise"]
      [] s = "probe"      -> [evaluate |-> "heat_if_cold"]
      [] s = "flaky"      -> [evaluate |-> "off_or_raise"]
      [] s = "subscriber" -> [evaluate |-> "subscribe_heat"]
      [] OTHER            -> [x \in {} |-> "undef"]

ChunkCanRaise(s) == s = "flaky"

\* A chunk whose bindings do not reach the interpreter it is run in.
Exec_discards(l, s) == l

\* The globals after the chunk of s has run in interpreter l: a binding made
\* by the chunk replaces the old one, every other global stays.
Exec(l, s) == [g \in Globals |-> IF g \in DOMAIN ChunkDefs(s) THEN ChunkDefs(s)[g] ELSE l[g]]

\* load_script, scripting.rs:213-216: lua.load(script).exec_async().  The
\* possible outcomes: a chunk that does not compile fails and runs nothing; a
\* chunk that runs to its end succeeds; a chunk whose top-level code raises
\* fails after its bindings were made.
load_script(l, s) ==
    IF ~Compiles(s) THEN {[ok |-> FALSE, lua |-> l]}
    ELSE {[ok |-> TRUE, lua |-> Exec(l, s)]}
         \cup (IF ChunkCanRaise(s) THEN {[ok |-> FALSE, lua |-> Exec(l, s)]} ELSE {})

\* ProbesProxy __index, scripting.rs:377-379 / HashMap::get
ProbeGet(pv, name) == IF name \in DOMAIN pv THEN pv[name] ELSE None

\* evaluate_script, scripting.rs:232-239: the possible results of calling the
\* global evaluate, [ok, val]; val is the Option<String> returned.
evaluate_script(l, pv) ==
    LET f == l["evaluate"] IN
    CASE f = "undef"    -> {[ok |-> TRUE, val |-> None]}
      [] f = "ret_heat" -> {[ok |-> TRUE, val |-> Some("heat")]}
      [] f = "subscribe_heat" -> {[ok |-> TRUE, val |-> Some("heat")]}
      [] f = "ret_cool" -> {[ok |-> TRUE, val |-> Some("cool")]}
      [] f = "ret_auto" -> {[ok |-> TRUE, val |-> Some("auto")]}
      [] f = "heat_if_cold" ->
            LET t == ProbeGet(pv, "primary") IN
            IF ~t.some THEN {[ok |-> FALSE, val |-> None]}
            ELSE IF PartialCmp(t.val, Num(20)) = Some("Less")
                 THEN {[ok |-> TRUE, val |-> Some("heat")]}
                 ELSE {[ok |-> TRUE, val |-> None]}
      [] f = "off_or_raise" -> {[ok |-> TRUE, val |-> Some("off")], [ok |-> FALSE, val |-> None]}

\* init_script / tick_script, scripting.rs:218-230: Ok when the global is
\* not a function, else the result of the call.
call_unit(f) == f # "raise"

\* A reload that skips the validation.
test_script_skipped(s, pv) == {TRUE}

\* test_script, scripting.rs:206-211: load into a fresh interpreter, then
\* evaluate once against the live state.  The set of possible verdicts.
test_script(s, pv) ==
    UNION { IF r.ok THEN { e.ok : e \in evaluate_script(r.lua, pv) } ELSE {FALSE} :
            r \in load_script(FreshLua, s) }

\* The topics a script function subscribes to through the state it is
\* handed (ScriptState.mqtt, scripting.rs:256-261) when it is called.
subscribes(f) == IF f = "subscribe_heat" THEN {"home/door"} ELSE {}

\* The monolith's mixer is no part of thermostatd.
NoMixer == [pc |-> "none"]

\* No topic subscribed through the proxy yet: CommonState::default() and a
\* client that has only the subscriptions of run_mqtt_eventloop.
NoProxy == [retained_keys |-> << >>, subscriptions |-> {}]

\* A subscribe that never reaches the client nor retained_keys.
MqttProxy_subscribe_dropped(px, topic) == px

\* MqttProxy::subscribe, scripting.rs:322-336: retained_keys gets the topic
\* with an empty value unless it has it, and the client subscribes.
MqttProxy_subscribe(px, topic) ==
    [retained_keys |-> IF topic \in DOMAIN px.retained_keys THEN px.retained_keys
                       ELSE (topic :> "") @@ px.retained_keys,
     subscriptions |-> px.subscriptions \cup {topic}]

\* MqttProxy's __index, scripting.rs:337-339: retained_keys.get(topic)
\* cloned, None reaching the script as nil.
MqttProxy_index(px, topic) ==
    IF topic \in DOMAIN px.retained_keys THEN Some(px.retained_keys[topic]) ELSE None

RECURSIVE subscribe_all(_, _)
subscribe_all(px, topics) ==
    IF topics = {} THEN px
    ELSE LET t == CHOOSE x \in topics : TRUE IN
         subscribe_all(MqttProxy_subscribe(px, t), topics \ {t})

\* test_script, scripting.rs:206-211, seen from the state it is handed: the
\* evaluate of the fresh interpreter is called with the caller's
\* ScriptState whenever the chunk has loaded.
test_script_proxy(px, s) ==
    IF \E r \in load_script(FreshLua, s) : r.ok
    THEN subscribe_all(px, subscribes(Exec(FreshLua, s)["evaluate"]))
    ELSE px

\* ------------------------------------------------------------------ inputs
ProbeNames == {"primary", "attic"}
\* Readings the primary probe's topic can deliver (mqtt.rs:220-222 parses an
\* f64, and "NaN" parses).
Readings == {Num(19), Num(20), Num(21), NaN}
\* Payloads of timed_override/set that deserialize.
TimedOverrides ==
    {None} \cup { Some([command |-> "Off", expiration |-> e]) : e \in {TickPeriod, MaxTime + 1} }
\* Payloads of oneshot_override/set that deserialize.
OneshotOverrides ==
    { None,
      Some([command |-> "Cool", comparison |-> "Greater", setpoint |-> Num(20), probe |-> "primary"]),
      Some([command |-> "Cool", comparison |-> "Less", setpoint |-> Num(20), probe |-> "attic"]) }
\* Values the store holds when the daemon starts.
StoredTimed == {None, Some([command |-> "Off", expiration |-> EvalPeriod])}
StoredOneshot == {None, Some([command |-> "Cool", comparison |-> "Less", setpoint |-> Num(20), probe |-> "primary"])}
\* Payloads of the relay's remotestate topic.
RemotePayloads == {"Hot"}

\* ------------------------------------------------------------------- state
VARIABLES
    now,                    \* wall clock, seconds
    msgs,                   \* bus messages delivered so far
    \* CommonState, main.rs:56-65
    last_call,
    timed_override,
    oneshot_override,
    script,                 \* [text, version]
    probe_values,
    \* durable store keys, main.rs:49-54
    store,                  \* [script, timed, oneshot]
    \* run_script_loop locals, scripting.rs:26-37, 42, 124
    lua,
    last_script_timestamp,
    next_evaluation,
    next_tick,
    state_script,
    next_call,
    pc,
    \* run_mqtt_eventloop: the handler in progress, mqtt.rs:47-254
    bus,
    \* observation: the live interpreter as it was when the reload in
    \* progress, or the last one, began
    lua_at_reload,
    \* the broker: the last retained payload of each topic
    retained,
    \* the relay-command topic: the payload last published on it
    relay,
    \* observation: what the decision task published and read in the current
    \* loop iteration
    pubs,
    cyc,
    \* observation: what the bus-event task published while it handled the
    \* message it received last, and what that message was
    sent,
    hist,
    \* main: the supervisor's position, last_restart and pileon_fails, the
    \* tasks run_thermostat is running, and how often it has returned;
    \* observation: the store keys initialize_state deleted, and the override
    \* cells that were empty, their store keys holding an override, when
    \* run_thermostat returned
    sup,
    \* the monolith's bus adapter (src/src/mqtt): the broker's subscriptions
    \* of the client, the Router, and the handler calls of the dispatch
    \* just made, if the last step was one
    mq,
    \* the monolith's probe and its two historians (src/src/hvac): the clock,
    \* the Probe's cells, the position of the handler that updates them and
    \* of the probe historian, the record_pinstate tasks, the two lists in
    \* the store
    hvac,
    \* the monolith's LuaController (src/src/hvac/mixer/lua_controller.rs):
    \* the calls made and how far each has got, the holder of the state
    \* mutex, the executor's queue, and the call its thread is running
    ctl,
    \* MqttProxy and the bus client behind it (scripting.rs:311-336):
    \* CommonState.retained_keys and the topics the client has subscribed to
    proxy,
    \* the monolith's MixerState (src/src/hvac/mixer/mod.rs): the oneshot
    \* setpoint cell, last_result, and how far the running get_query and the
    \* script's timed_program call have got
    mixer

vars == <<now, msgs, last_call, timed_override, oneshot_override, script, probe_values,
          store, lua, last_script_timestamp, next_evaluation, next_tick, state_script,
          next_call, pc, bus, lua_at_reload, retained, relay, pubs, cyc, sent, hist, sup, mq,
          hvac, ctl, proxy, mixer>>

\* The variables only the specifications further down use.
elsewhere == <<sent, hist, sup, mq, hvac, ctl, proxy, mixer>>

common == <<last_call, timed_override, oneshot_override, script, probe_values>>
locals == <<lua, last_script_timestamp, next_evaluation, next_tick, state_script, next_call>>
locals_but_next_call == <<lua, last_script_timestamp, next_evaluation, next_tick, state_script>>

\* What the evaluation of the current loop iteration has done so far: the
\* layers it consulted in order, the override cells it took (cleared), the
\* time and the values it read, the result of evaluate, and last_call as it
\* was before the commit.  NoCycle: no evaluation in this iteration.
NoCycle == [layers |-> << >>, cleared |-> {}, at |-> 0, timed |-> None, oneshot |-> None, probe |-> None,
            evaluated |-> None, before |-> "Off"]

Idle == [pc |-> "idle"]

\* main.rs:71-72, 99-102: first run of run_thermostat, both tasks started.
Running == [pc |-> "running", last_restart |-> None, pileon_fails |-> 0,
            tasks |-> {"bus", "decision"}, returns |-> 0, deleted |-> {}, cleared |-> {}]

\* mqtt/mod.rs:36-46, handler.rs:25-29: no subscription, Router::new() (the
\* root, at the empty path, is a Leaf without handlers), nothing dispatched.
\* asked and paths record the calls of subscribe and handle.
NoAdapter == [subs |-> << >>, router |-> (<< >> :> [node |-> FALSE, handlers |-> << >>]),
              calls |-> << >>, topic |-> << >>, asked |-> << >>, paths |-> << >>]

\* hvac/probe.rs:12-21 Probe::new at time 0 (value NaN, last_update the
\* time of construction), no update in progress, the historian asleep, no
\* record_pinstate task, both lists empty.  written holds the (value,
\* last_update) pairs single updates wrote, delivered the readings received
\* (NaN for a payload that is no number), seen how many of them were stored
\* when the last completed pass of the historian began, pushed the entries
\* the historian added.
NoHvac == [now |-> 0, value |-> NaN, last_update |-> 0, updating |-> FALSE,
           historian |-> [pc |-> "sleep", value |-> NaN, time |-> 0, saw |-> 0],
           tasks |-> << >>, probe_history |-> << >>, pinstate_history |-> << >>,
           written |-> {<<NaN, 0>>}, delivered |-> << >>, seen |-> 0, pushed |-> 0]

\* lua_controller.rs:28-35 LuaController::default: the mutex free, the
\* queue empty, nothing spawned on the executor, no call made.
NoController == [calls |-> << >>, state |-> None, queue |-> << >>, thread |-> None]

\* No message received yet.
NoMessage == [topic |-> "", payload |-> << >>, timed |-> None]

\* main.rs:96-97 and scripting.rs:26-37: the state when both tasks start.
\* initialize_state hydrates script and overrides from the store, whose
\* content was left by an earlier run; last_script_timestamp is the default
\* DateTime, which differs from every script version.
Init ==
    /\ now = 0
    /\ msgs = 0
    /\ last_call = "Off"
    /\ timed_override \in StoredTimed
    /\ oneshot_override \in StoredOneshot
    /\ script = [text |-> "heat", version |-> 1]
    /\ probe_values = [p \in ProbeNames |-> None]
    /\ store = [script |-> "heat", timed |-> to_json(timed_override), oneshot |-> to_json(oneshot_override)]
    /\ lua = FreshLua
    /\ lua_at_reload = FreshLua
    /\ last_script_timestamp = 0
    /\ next_evaluation = 0
    /\ next_tick = 0
    /\ state_script = script
    /\ next_call = None
    /\ pc = "boot"
    /\ bus = Idle
    /\ retained = [t \in RetainedTopics |->
                      CASE t = SCRIPT_DATA -> [text |-> script.text]
                        [] t = TIMED_OVERRIDE -> to_json(timed_override)
                        [] OTHER -> Absent]
    /\ relay = Absent
    /\ pubs = << >>
    /\ cyc = NoCycle
    /\ sent = << >>
    /\ hist = NoMessage
    /\ sup = Running
    /\ mq = NoAdapter
    /\ hvac = NoHvac
    /\ ctl = NoController
    /\ proxy = NoProxy
    /\ mixer = NoMixer

\* ------------------------------------------------------- the decision task
\* The operators named ...Seg are the code run from one program point to the
\* next .await that suspends; p is the list of publishes the iteration has
\* made so far and c what the evaluation has read so far.

\* scripting.rs:184-197: commit next_call nc and publish last_call as read
\* from CommonState after the commit.
CommitSeg(nc, c, p) ==
    /\ next_call' = nc
    /\ last_call' = Commit(nc, last_call)
    /\ pubs' = Append(p, Msg(HVAC_REMOTESTATE_SET, FALSE, payload_str(last_call')))
    /\ cyc' = [c EXCEPT !.before = last_call]
    /\ pc' = "sched"

\* scripting.rs:162: next_call is none, evaluate_script is awaited next.
ScriptSeg(c, p) ==
    /\ next_call' = None
    /\ cyc' = c
    /\ pubs' = p
    /\ pc' = "evaluate"
    /\ UNCHANGED last_call

\* scripting.rs:137-160: leaves oneshot_override set and commits its command,
\* or takes it and publishes the cell, or (absent) goes on to the script.
OneshotSeg(c, p) ==
    LET c1 == [c EXCEPT !.layers = Append(@, "oneshot"), !.oneshot = oneshot_override] IN
    IF oneshot_override.some
    THEN LET oo == oneshot_override.val
             currtemp == ProbeGet(probe_values, oo.probe)
             c2 == [c1 EXCEPT !.probe = currtemp]
         IN IF currtemp.some /\ OneshotHolds(oo.comparison, PartialCmp(currtemp.val, oo.setpoint))
            THEN CommitSeg(Some(oo.command), c2, p) /\ UNCHANGED oneshot_override
            ELSE /\ oneshot_override' = None
                 /\ pubs' = Append(p, publish_oneshot_override(oneshot_override'))
                 /\ next_call' = None
                 /\ cyc' = [c2 EXCEPT !.cleared = @ \cup {"oneshot"}]
                 /\ pc' = "evaluate"
                 /\ UNCHANGED last_call
    ELSE ScriptSeg(c1, p) /\ UNCHANGED oneshot_override

\* scripting.rs:123-135: the evaluation gate and the timed-override layer; t
\* is the time Instant::now() and Utc::now() return.
GateSeg(p, t) ==
    \E due \in EvaluationDue(next_evaluation, t) :
    IF ~due
    THEN /\ pc' = "sleep"
         /\ pubs' = p
         /\ cyc' = NoCycle
         /\ UNCHANGED <<last_call, timed_override, oneshot_override, next_call>>
    ELSE LET c == [NoCycle EXCEPT !.layers = <<"timed">>, !.at = t, !.timed = timed_override] IN
         IF timed_override.some
         THEN IF TimedActive(timed_override.val, t)
              THEN /\ CommitSeg(Some(timed_override.val.command), c, p)
                   /\ UNCHANGED <<timed_override, oneshot_override>>
              ELSE /\ timed_override' = None
                   /\ pubs' = Append(p, publish_timed_override(timed_override'))
                   /\ next_call' = None
                   /\ cyc' = [c EXCEPT !.cleared = {"timed"}]
                   /\ pc' = "oneshot"
                   /\ UNCHANGED <<last_call, oneshot_override>>
         ELSE OneshotSeg(c, p) /\ UNCHANGED timed_override

\* scripting.rs:107-123: the script tick; when it fails the error publish is
\* awaited before the gate.
TickSeg(p, t) ==
    IF call_unit(lua["tick"])
    THEN GateSeg(p, t)
    ELSE /\ pubs' = Append(p, ScriptError("tick_script"))
         /\ cyc' = NoCycle
         /\ pc' = AfterScriptError("tick_script")
         /\ UNCHANGED <<last_call, timed_override, oneshot_override, next_call>>

\* scripting.rs:35-37: sleep one second, then next_evaluation = Instant::now().
\* The clock is observed at the granularity of the decision loop: it advances
\* while the decision task sleeps, to the instant the sleep ends.
Boot ==
    /\ pc = "boot"
    /\ now' = now + TickPeriod
    /\ next_evaluation' = now'
    /\ pc' = "top"
    /\ UNCHANGED <<msgs, common, store, lua, last_script_timestamp, next_tick,
                   state_script, next_call, bus, pubs, cyc>>
    /\ UNCHANGED retained
    /\ UNCHANGED lua_at_reload
    /\ UNCHANGED relay
    /\ UNCHANGED elsewhere

\* scripting.rs:202 and 38-45: sleep_until(next_tick) returns and the loop
\* starts over.  The version is recorded as loaded before any reload step
\* has run.  Without a reload the iteration runs on into the tick.
LoopTop ==
    /\ pc \in {"top", "sleep"}
    /\ now' = IF pc = "sleep" /\ now < next_tick THEN next_tick ELSE now
    /\ now' <= MaxTime
    /\ next_tick' = now' + TickPeriod
    /\ state_script' = script
    /\ IF last_script_timestamp # script.version
       THEN /\ last_script_timestamp' = script.version
            /\ lua_at_reload' = lua
            /\ pc' = "test"
            /\ pubs' = << >>
            /\ cyc' = NoCycle
            /\ UNCHANGED <<last_call, timed_override, oneshot_override, next_call>>
       ELSE /\ UNCHANGED <<last_script_timestamp, lua_at_reload>>
            /\ TickSeg(<< >>, now')
    /\ UNCHANGED <<msgs, script, probe_values, store, lua, next_evaluation, bus>>
    /\ retained' = AfterPublish(retained, << >>, pubs')
    /\ relay' = AfterRelay(relay, pc', pubs')
    /\ UNCHANGED elsewhere

\* scripting.rs:46-61
ReloadTest ==
    /\ pc = "test"
    /\ \E ok \in test_script(state_script.text, probe_values) :
          IF ok THEN pc' = "load" /\ UNCHANGED pubs
          ELSE pc' = AfterScriptError("test_script") /\ pubs' = Append(pubs, ScriptError("test_script"))
    /\ UNCHANGED <<now, msgs, common, store, locals, bus, cyc>>
    /\ retained' = AfterPublish(retained, pubs, pubs')
    /\ UNCHANGED lua_at_reload
    /\ UNCHANGED relay
    /\ proxy' = test_script_proxy(proxy, state_script.text)
    /\ UNCHANGED <<sent, hist, sup, mq, hvac, ctl, mixer>>

\* scripting.rs:62-77: the chunk runs in the live interpreter.
ReloadLoad ==
    /\ pc = "load"
    /\ \E r \in load_script(lua, state_script.text) :
          /\ lua' = r.lua
          /\ IF r.ok THEN pc' = "init" /\ UNCHANGED pubs
             ELSE pc' = AfterScriptError("load_script") /\ pubs' = Append(pubs, ScriptError("load_script"))
    /\ UNCHANGED <<now, msgs, common, store, last_script_timestamp, next_evaluation, next_tick,
                   state_script, next_call, bus, cyc>>
    /\ retained' = AfterPublish(retained, pubs, pubs')
    /\ UNCHANGED lua_at_reload
    /\ UNCHANGED relay
    /\ UNCHANGED elsewhere

\* scripting.rs:78-103
ReloadInit ==
    /\ pc = "init"
    /\ IF call_unit(lua["init"])
       THEN pubs' = Append(pubs, ScriptSuccess) /\ pc' = "tick"
       ELSE pubs' = Append(pubs, ScriptError("init_script")) /\ pc' = AfterScriptError("init_script")
    /\ UNCHANGED <<now, msgs, common, store, locals, bus, cyc>>
    /\ retained' = AfterPublish(retained, pubs, pubs')
    /\ UNCHANGED lua_at_reload
    /\ UNCHANGED relay
    /\ UNCHANGED elsewhere

\* scripting.rs:107-135, entered after the await of a reload publish.
ScriptTick ==
    /\ pc = "tick"
    /\ TickSeg(pubs, now)
    /\ UNCHANGED <<now, msgs, script, probe_values, store, locals_but_next_call, bus>>
    /\ retained' = AfterPublish(retained, pubs, pubs')
    /\ UNCHANGED lua_at_reload
    /\ relay' = AfterRelay(relay, pc', pubs')
    /\ UNCHANGED elsewhere

\* scripting.rs:123-135, entered after the await of the tick-error publish.
EvalGate ==
    /\ pc = "gate"
    /\ GateSeg(pubs, now)
    /\ UNCHANGED <<now, msgs, script, probe_values, store, locals_but_next_call, bus>>
    /\ retained' = AfterPublish(retained, pubs, pubs')
    /\ UNCHANGED lua_at_reload
    /\ relay' = AfterRelay(relay, pc', pubs')
    /\ UNCHANGED elsewhere

\* scripting.rs:137-160, entered after the await of publish_timed_override.
EvalOneshot ==
    /\ pc = "oneshot"
    /\ OneshotSeg(cyc, pubs)
    /\ UNCHANGED <<now, msgs, timed_override, script, probe_values, store,
                   locals_but_next_call, bus>>
    /\ retained' = AfterPublish(retained, pubs, pubs')
    /\ UNCHANGED lua_at_reload
    /\ relay' = AfterRelay(relay, pc', pubs')
    /\ UNCHANGED elsewhere

\* scripting.rs:162-182, then 184-197 when evaluate returned Ok.
EvalScript ==
    /\ pc = "evaluate"
    /\ \E r \in evaluate_script(lua, probe_values) :
          LET c == [cyc EXCEPT !.layers = Append(@, "script"), !.evaluated = Some(r)] IN
          IF r.ok
          THEN CommitSeg(IF r.val.some THEN from_payload(Bytes(r.val.val)) ELSE None, c, pubs)
          ELSE /\ pubs' = Append(pubs, ScriptError("evaluate_script"))
               /\ cyc' = c
               /\ pc' = AfterScriptError("evaluate_script")
               /\ UNCHANGED <<last_call, next_call>>
    /\ UNCHANGED <<now, msgs, timed_override, oneshot_override, script, probe_values, store,
                   locals_but_next_call, bus>>
    /\ retained' = AfterPublish(retained, pubs, pubs')
    /\ UNCHANGED lua_at_reload
    /\ relay' = AfterRelay(relay, pc', pubs')
    /\ UNCHANGED elsewhere

\* scripting.rs:184-197 after the await of the evaluate-error publish.
EvalCommit ==
    /\ pc = "commit"
    /\ CommitSeg(next_call, cyc, pubs)
    /\ UNCHANGED <<now, msgs, timed_override, oneshot_override, script, probe_values, store,
                   locals_but_next_call, bus>>
    /\ retained' = AfterPublish(retained, pubs, pubs')
    /\ UNCHANGED lua_at_reload
    /\ relay' = AfterRelay(relay, pc', pubs')
    /\ UNCHANGED elsewhere

\* scripting.rs:199-200; the scope of next_call ends.
EvalSchedule ==
    /\ pc = "sched"
    /\ next_evaluation' = now + EvalPeriod
    /\ next_call' = None
    /\ pc' = "sleep"
    /\ UNCHANGED <<now, msgs, common, store, lua, last_script_timestamp, next_tick,
                   state_script, bus, pubs, cyc>>
    /\ UNCHANGED retained
    /\ UNCHANGED lua_at_reload
    /\ UNCHANGED relay
    /\ UNCHANGED elsewhere

\* ------------------------------------------------------ the bus-event task
\* Each handler of run_mqtt_eventloop writes the store first (an .await),
\* then the CommonState cell, then publishes.

\* mqtt.rs:66-84: script/set with a UTF-8 payload; redis.set(SAVED_SCRIPT).
RecvScriptSet(s) ==
    /\ bus.pc = "idle"
    /\ msgs < MaxMsgs
    /\ msgs' = msgs + 1
    /\ store' = [store EXCEPT !.script = s]
    /\ bus' = [pc |-> "script_set", arg |-> s]
    /\ UNCHANGED <<now, common, locals, pc, pubs, cyc>>
    /\ UNCHANGED retained
    /\ UNCHANGED lua_at_reload
    /\ UNCHANGED relay
    /\ UNCHANGED elsewhere

\* mqtt.rs:85-87.  The version is Utc::now(); the store round trip before it
\* makes it later than the version of the script it replaces.
ApplyScriptSet ==
    /\ bus.pc = "script_set"
    /\ script' = [text |-> bus.arg, version |-> script.version + 1]
    /\ retained' = Retain(retained, Msg(SCRIPT_DATA, TRUE, [text |-> bus.arg]))
    /\ bus' = Idle
    /\ UNCHANGED <<now, msgs, last_call, timed_override, oneshot_override, probe_values,
                   store, locals, pc, pubs, cyc>>
    /\ UNCHANGED lua_at_reload
    /\ UNCHANGED relay
    /\ UNCHANGED elsewhere

\* mqtt.rs:152-173: timed_override/set with a payload that deserializes to v.
RecvTimedSet(v) ==
    /\ bus.pc = "idle"
    /\ msgs < MaxMsgs
    /\ msgs' = msgs + 1
    /\ store' = [store EXCEPT !.timed = to_json(v)]
    /\ bus' = [pc |-> "timed_set", arg |-> v]
    /\ UNCHANGED <<now, common, locals, pc, pubs, cyc>>
    /\ UNCHANGED retained
    /\ UNCHANGED lua_at_reload
    /\ UNCHANGED relay
    /\ UNCHANGED elsewhere

\* mqtt.rs:174-175 and publish_timed_override, mqtt.rs:257-269
ApplyTimedSet ==
    /\ bus.pc = "timed_set"
    /\ timed_override' = bus.arg
    /\ retained' = Retain(retained, publish_timed_override(timed_override'))
    /\ bus' = Idle
    /\ UNCHANGED <<now, msgs, last_call, oneshot_override, script, probe_values,
                   store, locals, pc, pubs, cyc>>
    /\ UNCHANGED lua_at_reload
    /\ UNCHANGED relay
    /\ UNCHANGED elsewhere

\* mqtt.rs:187-208
RecvOneshotSet(v) ==
    /\ bus.pc = "idle"
    /\ msgs < MaxMsgs
    /\ msgs' = msgs + 1
    /\ store' = [store EXCEPT !.oneshot = to_json(v)]
    /\ bus' = [pc |-> "oneshot_set", arg |-> v]
    /\ UNCHANGED <<now, common, locals, pc, pubs, cyc>>
    /\ UNCHANGED retained
    /\ UNCHANGED lua_at_reload
    /\ UNCHANGED relay
    /\ UNCHANGED elsewhere

\* mqtt.rs:209-210 and publish_oneshot_override, mqtt.rs:271-283
ApplyOneshotSet ==
    /\ bus.pc = "oneshot_set"
    /\ oneshot_override' = bus.arg
    /\ retained' = Retain(retained, publish_oneshot_override(oneshot_override'))
    /\ bus' = Idle
    /\ UNCHANGED <<now, msgs, last_call, timed_override, script, probe_values,
                   store, locals, pc, pubs, cyc>>
    /\ UNCHANGED lua_at_reload
    /\ UNCHANGED relay
    /\ UNCHANGED elsewhere

\* mqtt.rs:213-217: the relay's reported state overwrites last_call.
RecvRemotestate(p) ==
    /\ bus.pc = "idle"
    /\ msgs < MaxMsgs
    /\ msgs' = msgs + 1
    /\ last_call' = IF from_payload(Bytes(p)).some THEN from_payload(Bytes(p)).val ELSE last_call
    /\ UNCHANGED <<now, timed_override, oneshot_override, script, probe_values, store,
                   locals, pc, bus, pubs, cyc>>
    /\ UNCHANGED retained
    /\ UNCHANGED lua_at_reload
    /\ UNCHANGED relay
    /\ UNCHANGED elsewhere

\* mqtt.rs:219-230: a reading on the primary probe's topic.
RecvProbe(v) ==
    /\ bus.pc = "idle"
    /\ msgs < MaxMsgs
    /\ msgs' = msgs + 1
    /\ probe_values' = [probe_values EXCEPT !["primary"] = Some(v)]
    /\ UNCHANGED <<now, last_call, timed_override, oneshot_override, script, store,
                   locals, pc, bus, pubs, cyc>>
    /\ UNCHANGED retained
    /\ UNCHANGED lua_at_reload
    /\ UNCHANGED relay
    /\ UNCHANGED elsewhere

\* A step of the decision task.
Decision ==
    \/ Boot \/ LoopTop \/ ReloadTest \/ ReloadLoad \/ ReloadInit \/ ScriptTick
    \/ EvalGate \/ EvalOneshot \/ EvalScript \/ EvalCommit \/ EvalSchedule

Next ==
    \/ Boot
    \/ LoopTop
    \/ ReloadTest
    \/ ReloadLoad
    \/ ReloadInit
    \/ ScriptTick
    \/ EvalGate
    \/ EvalOneshot
    \/ EvalScript
    \/ EvalCommit
    \/ EvalSchedule
    \/ \E s \in ScriptPayloads : RecvScriptSet(s)
    \/ ApplyScriptSet
    \/ \E v \in TimedOverrides : RecvTimedSet(v)
    \/ ApplyTimedSet
    \/ \E v \in OneshotOverrides : RecvOneshotSet(v)
    \/ ApplyOneshotSet
    \/ \E p \in RemotePayloads : RecvRemotestate(p)
    \/ \E v \in Readings : RecvProbe(v)

Spec == Init /\ [][Next]_vars

\* ------------------------------------------------------------ properties
\* The relay commands published in the current loop iteration.
RelayPubs == SelectSeq(pubs, LAMBDA m : m.topic = HVAC_REMOTESTATE_SET)

\* Layer l was consulted by the evaluation recorded in c.
ConsultedIn(c, l) == \E i \in DOMAIN c.layers : c.layers[i] = l

\* The evaluation of the current iteration has committed and published.
CycleDone == pc \in {"sched", "sleep"} /\ cyc.layers # << >>

\* The comparison of a probe value (Option) with the setpoint of oneshot
\* override oo matches oo.comparison.
Matches(oo, value) ==
    /\ value.some
    /\ ~value.val.nan
    /\ \/ oo.comparison = "Less" /\ value.val.v < oo.setpoint.v
       \/ oo.comparison = "Greater" /\ value.val.v > oo.setpoint.v

\* C1: an evaluation that reads a timed override whose expiration is later
\* than now consults no other layer, does not call evaluate, and publishes
\* the override's command as the one relay command of the cycle.
C1_TimedOverridePrecedence ==
    (cyc.layers # << >> /\ cyc.timed.some /\ cyc.timed.val.expiration > cyc.at)
    => /\ cyc.layers = <<"timed">>
       /\ ~cyc.evaluated.some
       /\ Len(RelayPubs) = 1
       /\ RelayPubs[1].payload = payload_str(cyc.timed.val.command)

\* C1 witness: a timed override decided while a oneshot override was set and
\* the loaded script would have returned another call.
C1_Witness ==
    /\ pc = "sched"
    /\ cyc.timed.some /\ cyc.timed.val.expiration > cyc.at
    /\ oneshot_override.some
    /\ lua["evaluate"] = "ret_heat"
    /\ last_call = "Off"

\* C2 (as claimed): a oneshot override is cleared in the cycle that finds its
\* probe past the setpoint in the direction of `comparison` (below it for
\* Less, above it for Greater), and its command is emitted in a cycle that
\* finds the probe not yet past the setpoint.
C2_OneshotClearedOncePastSetpoint ==
    (CycleDone /\ ConsultedIn(cyc, "oneshot") /\ cyc.oneshot.some /\ cyc.probe.some)
    => IF Matches(cyc.oneshot.val, cyc.probe)
       THEN "oneshot" \in cyc.cleared
       ELSE /\ "oneshot" \notin cyc.cleared
            /\ RelayPubs[1].payload = payload_str(cyc.oneshot.val.command)

\* A step of the decision task in which the oneshot layer is consulted.
OneshotStep ==
    /\ pc \notin {"evaluate", "commit", "sched"}
    /\ pc' \in {"evaluate", "sched"}
    /\ ConsultedIn(cyc', "oneshot")

\* C3: the step that consults a set oneshot override leaves it set and
\* commits and publishes its command exactly when the cached probe value
\* compared with the setpoint matches `comparison`; in every other case
\* (comparison fails, equal, NaN, no cached value) it clears the cell.
C3_OneshotActiveWhileComparisonHolds ==
    [][ (OneshotStep /\ oneshot_override.some)
        => IF Matches(oneshot_override.val, ProbeGet(probe_values, oneshot_override.val.probe))
           THEN /\ oneshot_override' = oneshot_override
                /\ pc' = "sched"
                /\ last_call' = oneshot_override.val.command
                /\ pubs'[Len(pubs')] = Msg(HVAC_REMOTESTATE_SET, FALSE, payload_str(oneshot_override.val.command))
           ELSE /\ oneshot_override' = None
                /\ pc' = "evaluate"
                /\ last_call' = last_call ]_vars

\* C3 witness: a oneshot override was cleared on a reading equal to its
\* setpoint.
C3_Witness ==
    /\ pc = "evaluate"
    /\ cyc.oneshot.some
    /\ cyc.probe = Some(cyc.oneshot.val.setpoint)
    /\ "oneshot" \in cyc.cleared
    /\ oneshot_override = None

\* The evaluation of the current iteration read a timed override whose
\* expiration is not later than now.
TimedExpiredRead ==
    cyc.layers # << >> /\ cyc.timed.some /\ ~(cyc.timed.val.expiration > cyc.at)

\* A step of the decision task in which the evaluation gate is passed and the
\* timed layer consulted.
TimedStep == pc \in {"top", "sleep", "tick", "gate"} /\ pc' \in {"sched", "oneshot", "evaluate"}

\* C4: an evaluation that finds a timed override whose expiration is not
\* later than now takes it out of CommonState and publishes JSON null
\* retained on the timed_override topic, in the step that finds it; after
\* that the cell holds an override again only through a timed_override/set
\* message.
C4_TimedOverrideClearedOnExpiration ==
    /\ [](TimedExpiredRead =>
             /\ "timed" \in cyc.cleared
             /\ \E i \in DOMAIN pubs : pubs[i] = Msg(TIMED_OVERRIDE, TRUE, JsonNull))
    /\ [][ (TimedStep /\ timed_override.some /\ ~(timed_override.val.expiration > now'))
           => /\ timed_override' = None
              /\ retained'[TIMED_OVERRIDE] = JsonNull
              /\ last_call' = last_call ]_vars
    /\ [][ (timed_override' # timed_override /\ timed_override'.some)
           => bus.pc = "timed_set" /\ timed_override' = bus.arg ]_vars

\* C4 witness: a later evaluation found the cell empty and let the script
\* decide, after the override the store still holds had expired and been
\* cleared with a retained null.
C4_Witness ==
    /\ pc = "sched"
    /\ ~cyc.timed.some
    /\ ConsultedIn(cyc, "script")
    /\ store.timed # JsonNull
    /\ retained[TIMED_OVERRIDE] = JsonNull
    /\ last_call = "Heat"

\* C5: when the evaluation of an iteration has cleared the oneshot override,
\* the retained null on the oneshot_override topic is among the iteration's
\* publishes, ahead of the relay command, and it is published before
\* last_call is committed.
C5_OneshotClearPublishedBeforeCommit ==
    "oneshot" \in cyc.cleared
    => /\ \E i \in DOMAIN pubs :
             /\ pubs[i] = Msg(ONESHOT_OVERRIDE, TRUE, JsonNull)
             /\ \A j \in DOMAIN pubs : pubs[j].topic = HVAC_REMOTESTATE_SET => i < j
       /\ (pc \in {"evaluate", "commit"} => RelayPubs = << >>)
       /\ (CycleDone => Len(RelayPubs) = 1)

\* C5 witness: a cycle cleared the oneshot override and then committed and
\* published a call that differs from the one before.
C5_Witness ==
    /\ pc = "sched"
    /\ "oneshot" \in cyc.cleared
    /\ Len(pubs) >= 2
    /\ pubs[Len(pubs)].topic = HVAC_REMOTESTATE_SET
    /\ last_call # cyc.before

\* What the timed and the oneshot layer found, from the values the
\* evaluation recorded in c read.
TimedProduced(c) == c.timed.some /\ c.timed.val.expiration > c.at
OneshotProduced(c) == c.oneshot.some /\ Matches(c.oneshot.val, c.probe)

\* C6: the layers are consulted in the order timed, oneshot, script; the
\* oneshot layer is consulted only when the timed layer produced no call and
\* the script only when neither override did; a layer that matches ends the
\* descent, and an absent, expired or goal-reached layer (the latter two
\* cleared) passes the decision on within the same cycle.
C6_LayerOrder ==
    cyc.layers # << >>
    => /\ cyc.layers \in {<<"timed">>, <<"timed", "oneshot">>, <<"timed", "oneshot", "script">>}
       /\ (ConsultedIn(cyc, "oneshot") => ~TimedProduced(cyc))
       /\ (ConsultedIn(cyc, "script") => ~TimedProduced(cyc) /\ ~OneshotProduced(cyc))
       /\ (TimedProduced(cyc) => cyc.layers = <<"timed">> /\ cyc.cleared = {})
       /\ (ConsultedIn(cyc, "oneshot") /\ OneshotProduced(cyc)
             => cyc.layers = <<"timed", "oneshot">> /\ "oneshot" \notin cyc.cleared)
       /\ (cyc.timed.some /\ ~TimedProduced(cyc) => "timed" \in cyc.cleared)
       /\ (ConsultedIn(cyc, "oneshot") /\ cyc.oneshot.some /\ ~OneshotProduced(cyc)
             => "oneshot" \in cyc.cleared)
       /\ (CycleDone /\ ~TimedProduced(cyc) => ConsultedIn(cyc, "oneshot"))
       /\ (CycleDone /\ ~TimedProduced(cyc) /\ ~OneshotProduced(cyc) => ConsultedIn(cyc, "script"))

\* C6 witness: one cycle found the timed override expired and the oneshot
\* override not matching, cleared both, and the script decided.
C6_Witness ==
    /\ pc = "sched"
    /\ cyc.layers = <<"timed", "oneshot", "script">>
    /\ cyc.cleared = {"timed", "oneshot"}
    /\ cyc.evaluated = Some([ok |-> TRUE, val |-> Some("heat")])
    /\ last_call = "Heat"

\* The step that commits and publishes, ending an evaluation.
CommitStep == pc # "sched" /\ pc' = "sched"

\* evaluate returned nil in the step: no override applied and the script
\* produced no call.
EvaluatedNil == pc = "evaluate" /\ cyc'.evaluated = Some([ok |-> TRUE, val |-> None])

\* C7: an evaluation that runs to its end has published exactly one relay
\* command, the last publish of its iteration; the payload is last_call as
\* CommonState holds it after the commit; and when evaluate returns nil
\* last_call keeps its value, which is what gets published.
C7_RelayPublishIsLastCall ==
    /\ [](CycleDone => /\ Len(RelayPubs) = 1
                       /\ pubs[Len(pubs)].topic = HVAC_REMOTESTATE_SET)
    /\ [][ CommitStep
           => /\ pubs'[Len(pubs')] = Msg(HVAC_REMOTESTATE_SET, FALSE, payload_str(last_call'))
              /\ (EvaluatedNil => last_call' = last_call) ]_vars

\* C7 witness: evaluate returned nil while last_call was Heat, and heat was
\* published as the keep-alive.
C7_Witness ==
    /\ pc = "sched"
    /\ cyc.evaluated = Some([ok |-> TRUE, val |-> None])
    /\ last_call = "Heat"
    /\ cyc.before = "Heat"
    /\ RelayPubs = <<Msg(HVAC_REMOTESTATE_SET, FALSE, "heat")>>

\* The decision task has a next step, or sleeps until a tick beyond the
\* horizon of the model.
LoopAlive == ENABLED Decision \/ (pc = "sleep" /\ next_tick > MaxTime)

\* C8: whatever script step fails, the decision task goes on (it never
\* reaches a point it cannot leave); and the commit that follows a failed
\* evaluate leaves last_call as it was and publishes it as the relay command.
C8_ScriptErrorNeverStopsLoop ==
    /\ []LoopAlive
    /\ [][ (pc = "commit" /\ pc' # "commit")
           => /\ pc' = "sched"
              /\ last_call' = last_call
              /\ pubs' = Append(pubs, Msg(HVAC_REMOTESTATE_SET, FALSE, payload_str(last_call))) ]_vars

\* C8 witness: the iteration after one whose tick and evaluate both failed
\* has started; the failed evaluation re-published the call before it.
C8_Witness ==
    /\ pc = "sched"
    /\ cyc.evaluated = Some([ok |-> FALSE, val |-> None])
    /\ \E i \in DOMAIN pubs : pubs[i] = ScriptError("evaluate_script")
    /\ last_call = "Heat"
    /\ RelayPubs = <<Msg(HVAC_REMOTESTATE_SET, FALSE, "heat")>>

\* A reload has ended in this iteration with the failure of one of its steps.
ReloadFailed ==
    /\ pc = "tick"
    /\ pubs # << >>
    /\ pubs[Len(pubs)].topic = SCRIPT_DATA_ERROR
    /\ ~pubs[Len(pubs)].payload.success

\* C9 (as claimed): after a reload in which test, load or init failed, the
\* globals that tick and evaluate are looked up in are those of the
\* interpreter as it was before the reload.
C9_FailedReloadKeepsPreviousScript ==
    ReloadFailed => lua = lua_at_reload

\* C10: a script text that does not compile never reaches load_script in the
\* live interpreter; the reload ends with the retained test_script error on
\* the script-error topic; and for as long as that text is the current
\* script the live interpreter is the one from before the reload, so every
\* evaluation calls the previous script's evaluate.
C10_SyntaxErrorNeverLoaded ==
    /\ (pc \in {"load", "init"} => Compiles(state_script.text))
    /\ (pc = "tick" /\ ~Compiles(state_script.text)
          => /\ pubs = <<ScriptError("test_script")>>
             /\ retained[SCRIPT_DATA_ERROR] = ScriptError("test_script").payload)
    /\ (~Compiles(state_script.text) /\ pc # "test"
          => /\ lua = lua_at_reload
             /\ last_script_timestamp = state_script.version)

\* C10 witness: with the text that does not compile as the current script
\* and its error retained, an evaluation ran the previous script's evaluate
\* and published heat.
C10_Witness ==
    /\ pc = "sched"
    /\ state_script.text = "syntax"
    /\ script.text = "syntax"
    /\ lua["evaluate"] = "ret_heat"
    /\ retained[SCRIPT_DATA_ERROR] = ScriptError("test_script").payload
    /\ cyc.evaluated = Some([ok |-> TRUE, val |-> Some("heat")])
    /\ RelayPubs = <<Msg(HVAC_REMOTESTATE_SET, FALSE, "heat")>>

\* No override is set and none was hydrated or is stored.
NoOverride ==
    /\ ~timed_override.some /\ ~oneshot_override.some
    /\ store.timed = JsonNull /\ store.oneshot = JsonNull

\* C11 (as claimed): with no override, once a loop iteration that follows the
\* one which reloaded the delivered script "cool" has ended (more than one
\* second after the script/set message), cool has been published on the
\* relay-command topic.  The case looked at is the one where the command
\* before was heat, which only a script decides (no override of the model
\* commands heat).
C11_CoolWithinOneSecond ==
    (/\ pc = "sleep" /\ pubs = << >>
     /\ script.text = "cool" /\ last_script_timestamp = script.version
     /\ NoOverride
     /\ relay \in {"heat", "cool"})
    => relay = "cool"

\* C11 (amended): the loop iteration that follows the script/set message
\* reloads the script, so that from the tick of that iteration on the live
\* evaluate is the one that returns cool; an evaluation that finds no
\* override then publishes cool; and an iteration passes the gate without
\* evaluating only while next_evaluation, at most EvalPeriod after the last
\* evaluation, has not passed.
C11_CoolAtNextEvaluation ==
    /\ (pc \notin {"boot", "top"} => last_script_timestamp = state_script.version)
    /\ (state_script.text = "cool" /\ pc \notin {"boot", "top", "test", "load"}
          => lua["evaluate"] = "ret_cool")
    /\ (CycleDone /\ state_script.text = "cool" /\ ~cyc.timed.some /\ ~cyc.oneshot.some
          => /\ cyc.evaluated = Some([ok |-> TRUE, val |-> Some("cool")])
             /\ RelayPubs = <<Msg(HVAC_REMOTESTATE_SET, FALSE, "cool")>>
             /\ (pc = "sched" => relay = "cool"))
    /\ (pc = "sleep" => now <= next_evaluation /\ next_evaluation <= now + EvalPeriod)

\* C11 witness: the evaluation that followed the reload of "cool" replaced
\* the heat emitted before by cool.
C11_Witness ==
    /\ pc = "sched"
    /\ state_script.text = "cool"
    /\ ~cyc.timed.some /\ ~cyc.oneshot.some
    /\ cyc.before = "Heat"
    /\ relay = "cool"
    /\ now > EvalPeriod

\* ====================================================== the bus-event task
\* The handlers of run_mqtt_eventloop from the payload bytes on, with the
\* two places where the decision task writes the override cells.

\* Messages a run of the bus-event task receives.
MaxBusMsgs == 3
\* The clock of a run of the bus-event task.
MaxBusTime == 1

\* main.rs:26-47, mod channels
SCRIPT_DATA_SET == "home/thermostatd/script/set"
TIMED_OVERRIDE_GET == "home/thermostatd/timed_override/get"
TIMED_OVERRIDE_SET == "home/thermostatd/timed_override/set"
TIMED_OVERRIDE_ERROR == "home/thermostatd/timed_override/error"
ONESHOT_OVERRIDE_GET == "home/thermostatd/oneshot_override/get"
ONESHOT_OVERRIDE_SET == "home/thermostatd/oneshot_override/set"
ONESHOT_OVERRIDE_ERROR == "home/thermostatd/oneshot_override/error"

\* Result<T, E>
Ok(x) == [ok |-> TRUE, val |-> x]
Err(e) == [ok |-> FALSE, err |-> e]

\* A payload as JSON text is [text |-> "invalid"] (not JSON at all),
\* [text |-> "null"], or [text |-> "object", members |-> m] with the members
\* <<name, value>> in the order they are written.

\* The JSON value a text denotes, in the form to_json yields: members by
\* name, their order forgotten.
JsonValue(p) ==
    IF p.text = "null" THEN JsonNull
    ELSE [json |-> "object",
          fields |-> [k \in { p.members[i][1] : i \in DOMAIN p.members } |->
                         p.members[CHOOSE i \in DOMAIN p.members : p.members[i][1] = k][2]]]

\* Deserialize for HvacRequest (hvac_request.rs:5-11) and OneshotOrdering
\* (thermostatd.rs:21-26): the variant a JSON string names.
HvacRequestVariant(s) ==
    CASE s = "off" -> Some("Off")
      [] s = "heat" -> Some("Heat")
      [] s = "cool" -> Some("Cool")
      [] OTHER -> None
OneshotOrderingVariant(s) ==
    CASE s = "less" -> Some("Less")
      [] s = "greater" -> Some("Greater")
      [] OTHER -> None

\* Deserialize for Option<TimedOverride>, derived in thermostatd.rs:6-10.
TimedFromJson(j) ==
    IF j = JsonNull THEN Ok(None)
    ELSE IF ~({"command", "expiration"} \subseteq DOMAIN j.fields) THEN Err("missing field")
    ELSE IF ~HvacRequestVariant(j.fields.command).some THEN Err("unknown variant")
    ELSE Ok(Some([command |-> HvacRequestVariant(j.fields.command).val,
                  expiration |-> j.fields.expiration]))

\* Deserialize for Option<OneshotOverride>, derived in thermostatd.rs:12-18.
OneshotFromJson(j) ==
    IF j = JsonNull THEN Ok(None)
    ELSE IF ~({"command", "comparison", "setpoint", "probe"} \subseteq DOMAIN j.fields)
    THEN Err("missing field")
    ELSE IF \/ ~HvacRequestVariant(j.fields.command).some
            \/ ~OneshotOrderingVariant(j.fields.comparison).some
    THEN Err("unknown variant")
    ELSE Ok(Some([command |-> HvacRequestVariant(j.fields.command).val,
                  comparison |-> OneshotOrderingVariant(j.fields.comparison).val,
                  setpoint |-> j.fields.setpoint,
                  probe |-> j.fields.probe]))

\* serde_json::from_slice::<Option<TimedOverride>>, mqtt.rs:153-154
from_slice_timed(p) ==
    IF p.text = "invalid" THEN Err("syntax") ELSE TimedFromJson(JsonValue(p))

\* serde_json::from_slice::<Option<OneshotOverride>>, mqtt.rs:188-189
from_slice_oneshot(p) ==
    IF p.text = "invalid" THEN Err("syntax") ELSE OneshotFromJson(JsonValue(p))

\* std::str::from_utf8 (mqtt.rs:67): payload bytes are a text or are not.
from_utf8(p) == IF p.utf8 THEN Ok(p.text) ELSE Err("Utf8Error")

\* Payloads of timed_override/set.
TimedPayloads ==
    { [text |-> "null"], [text |-> "invalid"] } \cup
    { [text |-> "object", members |-> m] : m \in {
        << <<"command", "heat">>, <<"expiration", MaxBusTime + 1>> >>,
        << <<"expiration", TickPeriod>>, <<"command", "off">> >>,
        << <<"command", "warm">>, <<"expiration", TickPeriod>> >>,
        << <<"command", "off">> >> } }
\* Payloads of oneshot_override/set.
OneshotPayloads ==
    { [text |-> "null"], [text |-> "invalid"] } \cup
    { [text |-> "object", members |-> m] : m \in {
        << <<"probe", "primary">>, <<"command", "cool">>,
           <<"comparison", "greater">>, <<"setpoint", Num(20)>> >>,
        << <<"command", "cool">>, <<"comparison", "equal">>,
           <<"setpoint", Num(20)>>, <<"probe", "primary">> >> } }
\* Payloads of script/set.
ScriptSetPayloads == { [utf8 |-> TRUE, text |-> "cool"], [utf8 |-> FALSE] }

\* The JSON of a rejected payload, mqtt.rs:72-76, 161-165, 196-200.
ErrorJson(e) == [success |-> FALSE, error |-> e]

\* A rejected payload that ends run_mqtt_eventloop.
AfterReject_stops == [pc |-> "stopped"]

\* mqtt.rs:80, 169, 204: `continue`, the loop polls the next event.
AfterReject == Idle

\* A store whose SET answers Ok without having written.
redis_set_unwritten(st, key, value) == {[ok |-> TRUE, store |-> st]}

\* redis.set(key, value).await (mqtt.rs:83, 172, 207): the possible outcomes.
\* Ok with the key written; or Err (connection lost), the write having
\* reached the store or not.
redis_set(st, key, value) ==
    { [ok |-> TRUE, store |-> [st EXCEPT ![key] = value]],
      [ok |-> FALSE, store |-> st],
      [ok |-> FALSE, store |-> [st EXCEPT ![key] = value]] }

\* run_mqtt_eventloop has returned the error of a `?`.
Stopped == [pc |-> "stopped"]

\* What the bus-event specification leaves alone: the supervisor, the
\* decision task's locals and the cells only it and the other handlers write.
decision_task == <<last_call, probe_values, locals, pc, lua_at_reload, relay, pubs, cyc, sup, mq,
                   hvac, ctl, proxy, mixer>>

\* The bus task takes the next message from the event loop; a get message's
\* payload is not looked at and is left out.
Poll(topic, payload) ==
    /\ bus.pc = "idle"
    /\ msgs < MaxBusMsgs
    /\ msgs' = msgs + 1
    /\ hist' = [hist EXCEPT !.topic = topic, !.payload = payload]

\* mqtt.rs:143-151
OnTimedOverrideGet ==
    /\ Poll(TIMED_OVERRIDE_GET, << >>)
    /\ sent' = <<Msg(TIMED_OVERRIDE, TRUE, to_json(timed_override))>>
    /\ retained' = Retain(retained, sent'[1])
    /\ UNCHANGED <<now, timed_override, oneshot_override, script, store, bus, decision_task>>

\* mqtt.rs:152-173: up to the end of redis.set, or the error publish; a
\* failed redis.set ends the task.
OnTimedOverrideSet(p) ==
    LET new_override == from_slice_timed(p) IN
    /\ Poll(TIMED_OVERRIDE_SET, p)
    /\ IF new_override.ok
       THEN /\ \E r \in redis_set(store, "timed", to_json(new_override.val)) :
                  /\ store' = r.store
                  /\ bus' = IF r.ok THEN [pc |-> "timed_set", arg |-> new_override.val, payload |-> p]
                            ELSE Stopped
            /\ sent' = << >>
       ELSE /\ sent' = <<Msg(TIMED_OVERRIDE_ERROR, FALSE, ErrorJson(new_override.err))>>
            /\ bus' = AfterReject
            /\ UNCHANGED store
    /\ UNCHANGED <<now, timed_override, oneshot_override, script, retained, decision_task>>

\* mqtt.rs:174-175
OnTimedOverrideSetDone ==
    /\ bus.pc = "timed_set"
    /\ timed_override' = bus.arg
    /\ sent' = Append(sent, publish_timed_override(timed_override'))
    /\ retained' = Retain(retained, publish_timed_override(timed_override'))
    /\ bus' = Idle
    /\ hist' = [hist EXCEPT !.timed = Some(bus.payload)]
    /\ UNCHANGED <<now, msgs, oneshot_override, script, store, decision_task>>

\* mqtt.rs:178-186: published without the retain flag.
OnOneshotOverrideGet ==
    /\ Poll(ONESHOT_OVERRIDE_GET, << >>)
    /\ sent' = <<Msg(ONESHOT_OVERRIDE, FALSE, to_json(oneshot_override))>>
    /\ retained' = Retain(retained, sent'[1])
    /\ UNCHANGED <<now, timed_override, oneshot_override, script, store, bus, decision_task>>

\* mqtt.rs:187-208
OnOneshotOverrideSet(p) ==
    LET new_override == from_slice_oneshot(p) IN
    /\ Poll(ONESHOT_OVERRIDE_SET, p)
    /\ IF new_override.ok
       THEN /\ \E r \in redis_set(store, "oneshot", to_json(new_override.val)) :
                  /\ store' = r.store
                  /\ bus' = IF r.ok THEN [pc |-> "oneshot_set", arg |-> new_override.val, payload |-> p]
                            ELSE Stopped
            /\ sent' = << >>
       ELSE /\ sent' = <<Msg(ONESHOT_OVERRIDE_ERROR, FALSE, ErrorJson(new_override.err))>>
            /\ bus' = AfterReject
            /\ UNCHANGED store
    /\ UNCHANGED <<now, timed_override, oneshot_override, script, retained, decision_task>>

\* mqtt.rs:209-210
OnOneshotOverrideSetDone ==
    /\ bus.pc = "oneshot_set"
    /\ oneshot_override' = bus.arg
    /\ sent' = Append(sent, publish_oneshot_override(oneshot_override'))
    /\ retained' = Retain(retained, publish_oneshot_override(oneshot_override'))
    /\ bus' = Idle
    /\ UNCHANGED <<now, msgs, timed_override, script, store, hist, decision_task>>

\* mqtt.rs:66-84
OnScriptDataSet(p) ==
    LET text == from_utf8(p) IN
    /\ Poll(SCRIPT_DATA_SET, p)
    /\ IF text.ok
       THEN /\ \E r \in redis_set(store, "script", text.val) :
                  /\ store' = r.store
                  /\ bus' = IF r.ok THEN [pc |-> "script_set", arg |-> text.val, payload |-> p]
                            ELSE Stopped
            /\ sent' = << >>
       ELSE /\ sent' = <<Msg(SCRIPT_DATA_ERROR, FALSE, ErrorJson(text.err))>>
            /\ bus' = AfterReject
            /\ UNCHANGED store
    /\ UNCHANGED <<now, timed_override, oneshot_override, script, retained, decision_task>>

\* mqtt.rs:85-87
OnScriptDataSetDone ==
    /\ bus.pc = "script_set"
    /\ script' = [text |-> bus.arg, version |-> script.version + 1]
    /\ sent' = Append(sent, Msg(SCRIPT_DATA, TRUE, [text |-> bus.arg]))
    /\ retained' = Retain(retained, Msg(SCRIPT_DATA, TRUE, [text |-> bus.arg]))
    /\ bus' = Idle
    /\ UNCHANGED <<now, msgs, timed_override, oneshot_override, store, hist, decision_task>>

\* scripting.rs:126-135: the decision task finds the timed override expired,
\* takes it and publishes the cell.
TimedOverrideExpires ==
    /\ timed_override.some
    /\ ~TimedActive(timed_override.val, now)
    /\ timed_override' = None
    /\ retained' = Retain(retained, publish_timed_override(timed_override'))
    /\ hist' = [hist EXCEPT !.timed = None]
    /\ UNCHANGED <<now, msgs, oneshot_override, script, store, bus, sent, decision_task>>

\* scripting.rs:137-160: the decision task finds the oneshot override's
\* comparison no longer true, or no reading of its probe, takes it and
\* publishes the cell.
OneshotOverrideClears ==
    /\ oneshot_override.some
    /\ LET oo == oneshot_override.val
           currtemp == ProbeGet(probe_values, oo.probe)
       IN ~(currtemp.some /\ OneshotHolds(oo.comparison, PartialCmp(currtemp.val, oo.setpoint)))
    /\ oneshot_override' = None
    /\ retained' = Retain(retained, publish_oneshot_override(oneshot_override'))
    /\ UNCHANGED <<now, msgs, timed_override, script, store, bus, sent, hist, decision_task>>

\* Time passes.
BusClock ==
    /\ now < MaxBusTime
    /\ now' = now + 1
    /\ UNCHANGED <<msgs, timed_override, oneshot_override, script, store, bus, retained,
                   sent, hist, decision_task>>

BusNext ==
    \/ OnTimedOverrideGet
    \/ \E p \in TimedPayloads : OnTimedOverrideSet(p)
    \/ OnTimedOverrideSetDone
    \/ OnOneshotOverrideGet
    \/ \E p \in OneshotPayloads : OnOneshotOverrideSet(p)
    \/ OnOneshotOverrideSetDone
    \/ \E p \in ScriptSetPayloads : OnScriptDataSet(p)
    \/ OnScriptDataSetDone
    \/ TimedOverrideExpires
    \/ OneshotOverrideClears
    \/ BusClock

BusSpec == Init /\ [][BusNext]_vars

\* The step handles a message received on topic.
Handles(topic) == bus.pc = "idle" /\ msgs' = msgs + 1 /\ hist'.topic = topic

Rejects(set_topic, parsed, error_topic) ==
    (Handles(set_topic) /\ ~parsed.ok)
       => /\ Len(sent') = 1
          /\ sent'[1].topic = error_topic
          /\ sent'[1].payload = [success |-> FALSE, error |-> parsed.err]
          /\ UNCHANGED <<timed_override, oneshot_override, script, store, retained>>
          /\ bus'.pc = "idle"

\* C13: a timed_override/set or oneshot_override/set payload that does not
\* deserialize, and a script/set payload that is not UTF-8, makes the bus
\* task publish one error object on the matching error topic and nothing
\* else, leaves override cells, script and its version, the store and the
\* value topics as they were, and the bus task goes on to the next message.
C13_RejectedPayloadChangesNothing ==
    [][ /\ Rejects(TIMED_OVERRIDE_SET, from_slice_timed(hist'.payload), TIMED_OVERRIDE_ERROR)
        /\ Rejects(ONESHOT_OVERRIDE_SET, from_slice_oneshot(hist'.payload), ONESHOT_OVERRIDE_ERROR)
        /\ Rejects(SCRIPT_DATA_SET, from_utf8(hist'.payload), SCRIPT_DATA_ERROR) ]_vars

\* A timed_override/set without its expiration has been rejected while an
\* override set by an earlier message was in place.
C13_Witness ==
    /\ hist.topic = TIMED_OVERRIDE_SET
    /\ hist.payload = [text |-> "object", members |-> << <<"command", "off">> >>]
    /\ hist.timed.some
    /\ timed_override.some /\ store.timed = to_json(timed_override)
    /\ sent = <<Msg(TIMED_OVERRIDE_ERROR, FALSE, ErrorJson("missing field"))>>
    /\ bus = Idle /\ msgs < MaxBusMsgs

\* -------------------------------------------------- script error reports
\* The decision task leaves program point p in this step.
Ran(p) == pc = p /\ pc' # p

\* The step runs the script tick: the iteration that starts without a
\* reload, or the one resumed after a reload.
TickRan ==
    \/ Ran("tick")
    \/ pc \in {"top", "sleep"} /\ next_tick' # next_tick /\ last_script_timestamp = script.version

\* The step publishes, after the publishes in base, exactly one message:
\* retained, on the script-error topic, success false and error_at = step.
Reports(step, base) ==
    /\ pubs' = Append(base, [topic |-> SCRIPT_DATA_ERROR, retain |-> TRUE,
                             payload |-> [success |-> FALSE, error_at |-> step]])
    /\ retained'[SCRIPT_DATA_ERROR] = [success |-> FALSE, error_at |-> step]

\* The step publishes nothing on the script-error topic after base.
ReportsNothing(base) ==
    /\ Len(pubs') >= Len(base)
    /\ \A i \in DOMAIN pubs' : i > Len(base) => pubs'[i].topic # SCRIPT_DATA_ERROR

\* C14: each script step that fails publishes one retained message on the
\* script-error topic with success false and error_at naming that step, and
\* a step that succeeds publishes no error; the reload whose three steps
\* all succeed publishes retained {success: true} and nothing else.  (The
\* error member holds the Debug text of the Lua error, which has no content
\* in this model.)
C14_ScriptStepsReportIndependently ==
    [][ /\ Ran("test") =>
             IF pc' = "load"
             THEN pubs' = pubs /\ TRUE \in test_script(state_script.text, probe_values)
             ELSE Reports("test_script", pubs) /\ FALSE \in test_script(state_script.text, probe_values)
        /\ Ran("load") =>
             IF pc' = "init"
             THEN pubs' = pubs /\ \E r \in load_script(lua, state_script.text) : r.ok
             ELSE Reports("load_script", pubs) /\ \E r \in load_script(lua, state_script.text) : ~r.ok
        /\ Ran("init") =>
             IF lua["init"] # "raise"
             THEN /\ pubs' = <<[topic |-> SCRIPT_DATA_ERROR, retain |-> TRUE, payload |-> [success |-> TRUE]]>>
                  /\ retained'[SCRIPT_DATA_ERROR] = [success |-> TRUE]
             ELSE Reports("init_script", pubs)
        /\ TickRan =>
             LET base == IF pc = "tick" THEN pubs ELSE << >> IN
             IF lua["tick"] # "raise" THEN ReportsNothing(base) ELSE Reports("tick_script", base)
        /\ Ran("evaluate") =>
             IF pc' = "sched"
             THEN ReportsNothing(pubs) /\ \E r \in evaluate_script(lua, probe_values) : r.ok
             ELSE Reports("evaluate_script", pubs) /\ \E r \in evaluate_script(lua, probe_values) : ~r.ok
      ]_vars

\* A reload has succeeded and the tick of the new script has failed.
C14_Witness ==
    /\ pc = "gate"
    /\ pubs = <<[topic |-> SCRIPT_DATA_ERROR, retain |-> TRUE, payload |-> [success |-> TRUE]],
                [topic |-> SCRIPT_DATA_ERROR, retain |-> TRUE,
                 payload |-> [success |-> FALSE, error_at |-> "tick_script"]]>>
    /\ retained[SCRIPT_DATA_ERROR] = [success |-> FALSE, error_at |-> "tick_script"]

\* ========================================================== the supervisor
\* main, run_thermostat and initialize_state: a run hydrates a new
\* CommonState from the store, starts the two tasks, and returns with the
\* first error; main backs off and calls run_thermostat again.

\* Times run_thermostat returns in a run of the model.
MaxReturns == 3
\* main.rs:80   Duration::from_secs(60)
RestartWindow == 60
\* main.rs:24
DEFAULT_SCRIPT == "default"

\* Seconds between a call of run_thermostat and its return.
Elapsed == {0, RestartWindow - 1, RestartWindow}

\* serde_json::from_str of a stored string (main.rs:128-129, 146-147); a
\* string that is not JSON is [json |-> "invalid"].
from_str_timed(d) == IF d.json = "invalid" THEN Err("syntax") ELSE TimedFromJson(d)
from_str_oneshot(d) == IF d.json = "invalid" THEN Err("syntax") ELSE OneshotFromJson(d)

\* What the store can hold when the daemon starts: no key, a string the
\* daemon wrote earlier, a string that is no JSON, a JSON object that lacks
\* a field.
SavedScripts == {Absent, [text |-> "cool"], [text |-> "subscriber"]}
SavedTimed ==
    { Absent, [json |-> "invalid"], [json |-> "object", fields |-> [command |-> "off"]] }
    \cup { to_json(v) : v \in StoredTimed }
SavedOneshot ==
    { Absent, [json |-> "invalid"] } \cup { to_json(v) : v \in StoredOneshot \ {None} }

\* A key the failed deserialization leaves in the store.
redis_del_skipped(st, key) == st

\* redis.del(key), main.rs:133, 151
redis_del(st, key) == [st EXCEPT ![key] = Absent]

\* A sleep that grows linearly.
Backoff_linear(pileon_fails) == pileon_fails

\* main.rs:82   Duration::from_secs(pileon_fails * pileon_fails)
Backoff(pileon_fails) == pileon_fails * pileon_fails

\* Tasks that go on running when another one has returned an error.
AfterTaskError_keeps_others(tasks, who) == tasks \ {who}

\* main.rs:99-102: try_join! returns with the first error and drops the
\* future that is still pending.
AfterTaskError(tasks, who) == {}

\* What the supervisor specification leaves alone.
tasks_state == <<msgs, locals, pc, bus, lua_at_reload, relay, pubs, cyc, hist, mq,
                hvac, ctl, proxy, mixer>>

\* thermostatd with the supervisor about to call run_thermostat for the
\* first time.
NotStarted ==
    /\ now = 0
    /\ msgs = 0
    /\ last_call = "Off"
    /\ timed_override = None
    /\ oneshot_override = None
    /\ script = [text |-> "", version |-> 0]
    /\ probe_values = [p \in ProbeNames |-> None]
    /\ store \in [script : SavedScripts, timed : SavedTimed, oneshot : SavedOneshot]
    /\ lua = FreshLua
    /\ lua_at_reload = FreshLua
    /\ last_script_timestamp = 0
    /\ next_evaluation = 0
    /\ next_tick = 0
    /\ state_script = script
    /\ next_call = None
    /\ pc = "boot"
    /\ bus = Idle
    /\ retained = [t \in RetainedTopics |-> Absent]
    /\ relay = Absent
    /\ pubs = << >>
    /\ cyc = NoCycle
    /\ sent = << >>
    /\ hist = NoMessage
    /\ sup = [pc |-> "start", last_restart |-> None, pileon_fails |-> 0, tasks |-> {},
              returns |-> 0, deleted |-> {}, cleared |-> {}]
    /\ proxy = NoProxy

\* The supervisor about to call run_thermostat for the first time.
SupInit ==
    /\ NotStarted
    /\ mq = NoAdapter
    /\ hvac = NoHvac
    /\ ctl = NoController
    /\ mixer = NoMixer

\* main.rs:93-96: connections opened (a new client, its session clean, so
\* without the subscriptions scripts asked for), CommonState::default().
Open ==
    /\ sup.pc = "start"
    /\ last_call' = "Off"
    /\ timed_override' = None
    /\ oneshot_override' = None
    /\ script' = [text |-> "", version |-> 0]
    /\ probe_values' = [p \in ProbeNames |-> None]
    /\ sent' = << >>
    /\ proxy' = NoProxy
    /\ sup' = [sup EXCEPT !.pc = "hydrate_script", !.deleted = {}]
    /\ UNCHANGED <<now, store, retained, msgs, locals, pc, bus, lua_at_reload, relay,
                   pubs, cyc, hist, mq, hvac, ctl, mixer>>

\* main.rs:113-125
HydrateScript ==
    /\ sup.pc = "hydrate_script"
    /\ script' = [text |-> IF store.script = Absent THEN DEFAULT_SCRIPT ELSE store.script.text,
                  version |-> 1]
    /\ sent' = Append(sent, Msg(SCRIPT_DATA, TRUE, [text |-> script'.text]))
    /\ retained' = Retain(retained, sent'[Len(sent')])
    /\ sup' = [sup EXCEPT !.pc = "hydrate_timed"]
    /\ UNCHANGED <<now, last_call, timed_override, oneshot_override, probe_values, store,
                   tasks_state>>

\* main.rs:126-142
HydrateTimed ==
    /\ sup.pc = "hydrate_timed"
    /\ IF store.timed = Absent
       THEN UNCHANGED <<timed_override, store>> /\ sup' = [sup EXCEPT !.pc = "hydrate_oneshot"]
       ELSE LET r == from_str_timed(store.timed) IN
            IF r.ok
            THEN /\ timed_override' = r.val
                 /\ UNCHANGED store
                 /\ sup' = [sup EXCEPT !.pc = "hydrate_oneshot"]
            ELSE /\ store' = redis_del(store, "timed")
                 /\ UNCHANGED timed_override
                 /\ sup' = [sup EXCEPT !.pc = "hydrate_oneshot", !.deleted = @ \cup {"timed"}]
    /\ sent' = Append(sent, Msg(TIMED_OVERRIDE, TRUE, to_json(timed_override')))
    /\ retained' = Retain(retained, sent'[Len(sent')])
    /\ UNCHANGED <<now, last_call, oneshot_override, script, probe_values, tasks_state>>

\* main.rs:144-155, then main.rs:99-102: both tasks start.
HydrateOneshot ==
    /\ sup.pc = "hydrate_oneshot"
    /\ IF store.oneshot = Absent
       THEN UNCHANGED <<oneshot_override, store>> /\ sup' = [sup EXCEPT !.pc = "running", !.tasks = {"bus", "decision"}]
       ELSE LET r == from_str_oneshot(store.oneshot) IN
            IF r.ok
            THEN /\ oneshot_override' = r.val
                 /\ UNCHANGED store
                 /\ sup' = [sup EXCEPT !.pc = "running", !.tasks = {"bus", "decision"}]
            ELSE /\ store' = redis_del(store, "oneshot")
                 /\ UNCHANGED oneshot_override
                 /\ sup' = [sup EXCEPT !.pc = "running", !.tasks = {"bus", "decision"},
                                       !.deleted = @ \cup {"oneshot"}]
    /\ UNCHANGED <<now, last_call, timed_override, script, probe_values, retained, sent,
                   tasks_state>>

\* An error before the tasks start: any `?` of main.rs:93-97, 113-155 (a
\* missing environment variable, the store or the broker unreachable).
SetupFails(d) ==
    /\ sup.pc \in {"start", "hydrate_script", "hydrate_timed", "hydrate_oneshot"}
    /\ sup.returns < MaxReturns
    /\ now' = now + d
    /\ sup' = [sup EXCEPT !.pc = "returned", !.returns = @ + 1]
    /\ UNCHANGED <<common, store, retained, sent, tasks_state>>

\* main.rs:99-102: one of the two tasks returns an error.
TaskFails(who, d) ==
    /\ sup.pc = "running"
    /\ who \in sup.tasks
    /\ sup.returns < MaxReturns
    /\ now' = now + d
    /\ sup' = [sup EXCEPT !.pc = "returned", !.returns = @ + 1,
                          !.tasks = AfterTaskError(sup.tasks, who)]
    /\ UNCHANGED <<common, store, retained, sent, tasks_state>>

\* main.rs:74-86: the error is logged; a return less than 60 s after the
\* last restart counts and sleeps, any other restarts at once.
Supervise ==
    /\ sup.pc = "returned"
    /\ IF sup.last_restart.some /\ now - sup.last_restart.val < RestartWindow
       THEN sup' = [sup EXCEPT !.pc = "sleeping", !.pileon_fails = @ + 1]
       ELSE sup' = [sup EXCEPT !.pc = "start", !.last_restart = Some(now)]
    /\ UNCHANGED <<now, common, store, retained, sent, tasks_state>>

\* main.rs:82, 86: the sleep ends, last_restart = Some(Instant::now()).
Wake ==
    /\ sup.pc = "sleeping"
    /\ now' = now + Backoff(sup.pileon_fails)
    /\ sup' = [sup EXCEPT !.pc = "start", !.last_restart = Some(now')]
    /\ UNCHANGED <<common, store, retained, sent, tasks_state>>

SupNext ==
    \/ Open
    \/ HydrateScript
    \/ HydrateTimed
    \/ HydrateOneshot
    \/ \E d \in Elapsed : SetupFails(d)
    \/ \E who \in {"bus", "decision"}, d \in Elapsed : TaskFails(who, d)
    \/ Supervise
    \/ Wake

SupSpec == SupInit /\ [][SupNext]_vars

\* The supervisor is the only task of main and a sleep ends.
SupLive == SupSpec /\ WF_vars(Open \/ HydrateScript \/ HydrateTimed \/ HydrateOneshot)
                   /\ WF_vars(Supervise) /\ WF_vars(Wake)

\* The step of initialize_state at program point p goes on without error.
Hydrates(p) == sup.pc = p /\ sup'.pc \notin {p, "returned"}

\* The hydration step of one override: the stored string data, what from_str
\* makes of it, the CommonState cell before and after the step, the key,
\* and the program point that follows.
HydratesOverride(data, parsed, cell, cell_after, key, then) ==
    /\ sup'.pc = then
    /\ cell = None
    /\ IF data = Absent THEN cell_after = None /\ store' = store
       ELSE IF ~parsed.ok
       THEN /\ store' = [store EXCEPT ![key] = Absent]
            /\ cell_after = None
       ELSE /\ to_json(cell_after) = data
            /\ store' = store

\* C15: at startup a stored timed_override (oneshot_override) string that
\* does not deserialize is deleted from the store, the cell stays absent and
\* initialize_state goes on; a string that deserializes is loaded, the cell
\* then holding the value the string is the serialization of, and the store
\* is left alone.
C15_UndeserializableKeyDeleted ==
    [][ /\ Hydrates("hydrate_timed") =>
              HydratesOverride(store.timed, from_str_timed(store.timed), timed_override, timed_override',
                               "timed", "hydrate_oneshot")
        /\ Hydrates("hydrate_oneshot") =>
              HydratesOverride(store.oneshot, from_str_oneshot(store.oneshot), oneshot_override, oneshot_override',
                               "oneshot", "running") ]_vars

\* A startup has deleted both keys and has started the tasks.
C15_Witness ==
    /\ sup.pc = "running"
    /\ sup.deleted = {"timed", "oneshot"}
    /\ store.timed = Absent /\ store.oneshot = Absent
    /\ ~timed_override.some /\ ~oneshot_override.some

\* C16: when the tasks start, the startup has published, each retained,
\* the hydrated script on the script topic, the hydrated timed override on
\* the timed_override topic and the hydrated oneshot override on the
\* oneshot_override topic.
C16_StartupPublishesHydratedValues ==
    sup.pc = "running" =>
        /\ \E i \in DOMAIN sent : sent[i] = [topic |-> SCRIPT_DATA, retain |-> TRUE,
                                             payload |-> [text |-> script.text]]
        /\ \E i \in DOMAIN sent : sent[i] = [topic |-> TIMED_OVERRIDE, retain |-> TRUE,
                                             payload |-> to_json(timed_override)]
        /\ \E i \in DOMAIN sent : sent[i] = [topic |-> ONESHOT_OVERRIDE, retain |-> TRUE,
                                             payload |-> to_json(oneshot_override)]

\* C17: when run_thermostat has returned less than 60 s after the last
\* restart, pileon_fails grows by one and the supervisor sleeps the square
\* of the new pileon_fails before it calls run_thermostat again; on the
\* first return and on a return 60 s or more after the last restart it
\* calls run_thermostat at once and pileon_fails stays.
C17_BackoffSquaredWhenClustered ==
    [][ /\ (sup.pc = "returned" /\ sup'.pc # "returned") =>
              IF sup.last_restart.some /\ now - sup.last_restart.val < 60
              THEN /\ sup'.pileon_fails = sup.pileon_fails + 1
                   /\ sup'.pc = "sleeping"
              ELSE /\ sup'.pileon_fails = sup.pileon_fails
                   /\ sup'.pc = "start"
                   /\ now' = now
        /\ (sup.pc = "sleeping" /\ sup'.pc # "sleeping") =>
              /\ now' = now + sup.pileon_fails * sup.pileon_fails
              /\ sup'.pc = "start"
              /\ sup'.pileon_fails = sup.pileon_fails ]_vars

\* The third return in a row within 60 s of a restart: the supervisor is
\* in its second sleep, of 4 s.
C17_Witness ==
    /\ sup.pc = "sleeping"
    /\ sup.pileon_fails = 2
    /\ sup.returns = 3
    /\ sup.last_restart.some /\ now - sup.last_restart.val = RestartWindow - 1

\* C18: whenever run_thermostat has returned, the supervisor calls it
\* again later; the two tasks run together or not at all, so the error of
\* one ends the other, and a return leaves none running.
C18_SupervisorAlwaysRestarts ==
    /\ (sup.pc = "returned") ~> (sup.pc = "start")
    /\ [](sup.tasks \in {{}, {"bus", "decision"}})
    /\ [](sup.pc = "returned" => sup.tasks = {})
    /\ [](sup.pc = "running" <=> sup.tasks = {"bus", "decision"})

\* The tasks run again after the last return the model allows.
C18_Witness ==
    /\ sup.pc = "running"
    /\ sup.returns = MaxReturns
    /\ sup.tasks = {"bus", "decision"}

\* ================================================= the monolith's bus adapter
\* MqttClient (src/src/mqtt/mod.rs) and its Router (src/src/mqtt/handler.rs).
\* A topic or a handler path is the sequence of its levels, the empty
\* sequence being the empty string; a level is a name or, in a path, `*`.

\* Calls of subscribe and calls of handle in a run.
MaxSubscribes == 2
MaxHandlers == 2

\* Topics messages arrive on and the adapter subscribes to.
Topics == { <<"a">>, <<"b">>, <<"a", "b">>, <<"a", "b", "c">> }
\* Paths handlers are registered under.
Paths == Topics \cup { <<"*">>, <<"a", "*">>, <<"a", "b", "*">>, <<"a", "*", "c">> }

\* A broker that keeps one more subscription per SUBSCRIBE.
AfterSubscribe_adds(subs, t) == (t :> (IF t \in DOMAIN subs THEN subs[t] + 1 ELSE 1)) @@ subs

\* mqtt/mod.rs:19: client.subscribe(topic, QoS::AtMostOnce).  The client
\* sends a SUBSCRIBE; a broker replaces a subscription whose filter is the
\* same, so it holds one for the topic however often this is called.
AfterSubscribe(subs, t) == (t :> 1) @@ subs

\* handler.rs:58-69 make_node, 91-100: the route at q becomes a Node keeping
\* its handlers, and gets the child stem, a Leaf, unless it has one.
with_child(r, q, stem) ==
    LET made == [r EXCEPT ![q].node = TRUE] IN
    IF Append(q, stem) \in DOMAIN made THEN made
    ELSE (Append(q, stem) :> [node |-> FALSE, handlers |-> << >>]) @@ made

\* handler.rs:85-102 insert, route being the one at q
RECURSIVE insert(_, _, _, _)
insert(r, q, path, handler) ==
    IF path = << >> THEN [r EXCEPT ![q].handlers = Append(@, handler)]
    ELSE insert(with_child(r, q, Head(path)), Append(q, Head(path)), Tail(path), handler)

\* A router whose `*` children are never found.
sub_tree_no_wildcard(r, q, stem) ==
    IF stem # "*" /\ r[q].node /\ Append(q, stem) \in DOMAIN r THEN Some(Append(q, stem)) ELSE None

\* handler.rs:125-130
sub_tree(r, q, stem) ==
    IF r[q].node /\ Append(q, stem) \in DOMAIN r THEN Some(Append(q, stem)) ELSE None

\* A route whose first handler only is called.
execute_first_only(r, q, topic) ==
    [i \in 1..(IF r[q].handlers = << >> THEN 0 ELSE 1) |-> [handler |-> r[q].handlers[i], topic |-> topic]]

\* handler.rs:132-136: the calls made, in order.
execute(r, q, topic) ==
    [i \in 1..Len(r[q].handlers) |-> [handler |-> r[q].handlers[i], topic |-> topic]]

\* handler.rs:104-123 dispatch, route being the one at q
RECURSIVE dispatch(_, _, _, _)
dispatch(r, q, path, topic) ==
    IF path = << >> THEN execute(r, q, topic)
    ELSE (IF sub_tree(r, q, "*").some THEN execute(r, sub_tree(r, q, "*").val, topic) ELSE << >>)
         \o (IF sub_tree(r, q, Head(path)).some
             THEN dispatch(r, sub_tree(r, q, Head(path)).val, Tail(path), topic)
             ELSE << >>)

\* The variables of thermostatd and the mixer, which the specifications
\* of the monolith's other parts leave alone.
thermostatd_but_mixer == <<now, msgs, common, store, locals, pc, bus, lua_at_reload,
                           retained, relay, pubs, cyc, sent, hist, sup, proxy>>
thermostatd == <<thermostatd_but_mixer, mixer>>

\* The adapter after init, thermostatd's state being no part of it.
AdapterInit ==
    /\ SupInit
    /\ store = [script |-> Absent, timed |-> Absent, oneshot |-> Absent]

\* mqtt/mod.rs:18-20
subscribe(t) ==
    /\ Len(mq.asked) < MaxSubscribes
    /\ mq' = [mq EXCEPT !.subs = AfterSubscribe(@, t), !.asked = Append(@, t),
                        !.calls = << >>, !.topic = << >>]
    /\ UNCHANGED <<thermostatd, hvac, ctl>>

\* mqtt/mod.rs:22-25; the handler is named by the number of the call.
handle(path) ==
    /\ Len(mq.paths) < MaxHandlers
    /\ mq' = [mq EXCEPT !.router = insert(@, << >>, path, Len(mq.paths) + 1),
                        !.paths = Append(@, path), !.calls = << >>, !.topic = << >>]
    /\ UNCHANGED <<thermostatd, hvac, ctl>>

\* mqtt/mod.rs:48-59: a message published on t reaches the client once for
\* each subscription the broker holds for t, and each arrival is dispatched.
mqtt_listener(t) ==
    /\ t \in DOMAIN mq.subs
    /\ LET once == dispatch(mq.router, << >>, t, t)
           times[n \in Nat] == IF n = 0 THEN << >> ELSE times[n - 1] \o once
       IN mq' = [mq EXCEPT !.calls = times[mq.subs[t]], !.topic = t]
    /\ UNCHANGED <<thermostatd, hvac, ctl>>

AdapterNext ==
    \/ \E t \in Topics : subscribe(t)
    \/ \E path \in Paths : handle(path)
    \/ \E t \in Topics : mqtt_listener(t)

AdapterSpec == AdapterInit /\ [][AdapterNext]_vars

\* How often handler h was called in the last dispatch.
Called(h) == Cardinality({ i \in DOMAIN mq.calls : mq.calls[i].handler = h })

\* Calls of subscribe(t) so far.
Asked(t) == Cardinality({ i \in DOMAIN mq.asked : mq.asked[i] = t })

MatchesTopic(p, topic) ==
    \/ p = topic
    \/ \E k \in 0..(Len(topic) - 1) : p = Append(SubSeq(topic, 1, k), "*")

UnderWildcard(p, topic, more) ==
    /\ p # << >> /\ p[Len(p)] = "*"
    /\ Len(topic) - (Len(p) - 1) \in more
    /\ SubSeq(topic, 1, Len(p) - 1) = SubSeq(p, 1, Len(p) - 1)

MaxHvacTime == 3
\* Messages on the probe's topic and on the pinstate topic in a run.
MaxReadings == 2
MaxPinstates == 3
\* hvac/mod.rs:113-114: MAX_LEN = 60 * 60 * 24 * 14 / PERIOD = 120,960 in
\* the source; the lists of the model are this much shorter.
MAX_LEN == 2

\* Payloads on the probe's topic, hvac/mod.rs:269-271: ASCII decimals and one
\* payload f32::from_str rejects.
ProbePayloads == {"20.5", "21", "warm"}
f32_from_str(text) ==
    CASE text = "20.5" -> Some(Num(20))
      [] text = "21" -> Some(Num(21))
      [] OTHER -> None

\* Payloads on the pinstate topic.
PinstatePayloads == {"heat", "cool", "auto"}

\* The lists the store can hold when the server starts: none, or entries
\* written by an earlier run.
SavedProbeHistory == { << >>, << [time |-> 0, value |-> Num(19)] >> }
SavedPinstateHistory == { << >>, << [state |-> "off", now |-> 0] >> }

\* redis LINDEX key 0 read as a String (hvac/mod.rs:134): the head, or, the
\* key being empty, nil, which the conversion to String refuses.
lindex_string(list) == IF list = << >> THEN Err("nil") ELSE Ok(list[1])

\* redis LINDEX key 0 read as an Option<String> (hvac/mod.rs:162)
lindex_option(list) == IF list = << >> THEN Ok(None) ELSE Ok(Some(list[1]))

\* redis LPUSH and LTRIM key 0 stop
lpush(list, entry) == <<entry>> \o list
ltrim(list, stop) == SubSeq(list, 1, IF Len(list) < stop + 1 THEN Len(list) ELSE stop + 1)

\* hvac/mod.rs:167-169: the first characters of the head and of the call's
\* word differ, or there is no head.
differs(latest, state) ==
    IF latest.some THEN Bytes(latest.val.state)[1] # Bytes(state)[1] ELSE TRUE

\* The server after hvac::initialize, for each store it can start with.
HvacInit ==
    /\ NotStarted
    /\ store = [script |-> Absent, timed |-> Absent, oneshot |-> Absent]
    /\ mq = NoAdapter
    /\ ctl = NoController
    /\ mixer = NoMixer
    /\ \E ph \in SavedProbeHistory, pin \in SavedPinstateHistory :
          hvac = [NoHvac EXCEPT !.probe_history = ph, !.pinstate_history = pin]

\* The millisecond clock.
HvacClock ==
    /\ hvac.now < MaxHvacTime
    /\ hvac' = [hvac EXCEPT !.now = @ + 1]
    /\ UNCHANGED <<thermostatd, mq, ctl>>

\* hvac/mod.rs:268-275 with probe.rs:35-38: a message on the probe's topic;
\* a payload that is a number has its value stored.
OnProbeMessage(payload) ==
    /\ ~hvac.updating
    /\ Len(hvac.delivered) < MaxReadings
    /\ LET temp == f32_from_str(payload) IN
       hvac' = IF temp.some
               THEN [hvac EXCEPT !.value = temp.val, !.updating = TRUE,
                                 !.delivered = Append(@, temp.val)]
               ELSE [hvac EXCEPT !.delivered = Append(@, NaN)]
    /\ UNCHANGED <<thermostatd, mq, ctl>>

\* probe.rs:39-41: the same update stores the time.
OnProbeMessageStamp ==
    /\ hvac.updating
    /\ hvac' = [hvac EXCEPT !.last_update = hvac.now, !.updating = FALSE,
                            !.written = @ \cup {<<hvac.value, hvac.now>>}]
    /\ UNCHANGED <<thermostatd, mq, ctl>>

\* hvac/mod.rs:117-126: the historian wakes and reads the value; NaN ends
\* the pass.
HistorianWakes ==
    /\ hvac.historian.pc = "sleep"
    /\ LET saw == Len(hvac.delivered) - (IF hvac.updating THEN 1 ELSE 0) IN
       hvac' = IF hvac.value.nan
               THEN [hvac EXCEPT !.seen = saw]
               ELSE [hvac EXCEPT !.historian.pc = "value", !.historian.saw = saw]
    /\ UNCHANGED <<thermostatd, mq, ctl>>

\* hvac/mod.rs:130: format!'s first argument, the value read again
HistorianReadsValue ==
    /\ hvac.historian.pc = "value"
    /\ hvac' = [hvac EXCEPT !.historian.pc = "time", !.historian.value = hvac.value]
    /\ UNCHANGED <<thermostatd, mq, ctl>>

\* hvac/mod.rs:131: format!'s second argument, last_update
HistorianReadsTime ==
    /\ hvac.historian.pc = "time"
    /\ hvac' = [hvac EXCEPT !.historian.pc = "record", !.historian.time = hvac.last_update]
    /\ UNCHANGED <<thermostatd, mq, ctl>>

\* hvac/mod.rs:134-144: compare with the head, push, trim; then the sleep.
HistorianRecords ==
    /\ hvac.historian.pc = "record"
    /\ LET data == [time |-> hvac.historian.time, value |-> hvac.historian.value]
           last_value == lindex_string(hvac.probe_history)
           pushed == IF last_value.val # data THEN lpush(hvac.probe_history, data)
                     ELSE hvac.probe_history
       IN hvac' = [hvac EXCEPT !.historian.pc = "sleep", !.seen = hvac.historian.saw,
                               !.probe_history = IF last_value.ok THEN ltrim(pushed, MAX_LEN - 1)
                                                 ELSE @,
                               !.pushed = IF last_value.ok /\ last_value.val # data THEN @ + 1
                                          ELSE @]
    /\ UNCHANGED <<thermostatd, mq, ctl>>

\* hvac/mod.rs:156-160: a pinstate message; a payload that is a call spawns
\* a record_pinstate task with the call and the time, any other nothing.
OnPinstate(payload) ==
    /\ Len(hvac.tasks) < MaxPinstates
    /\ LET state == from_payload(Bytes(payload)) IN
       hvac' = IF state.some
               THEN [hvac EXCEPT !.tasks = Append(@, [pc |-> "lindex", now |-> hvac.now,
                                                      latest |-> None, state |-> state.val])]
               ELSE hvac
    /\ UNCHANGED <<thermostatd, mq, ctl>>

\* hvac/mod.rs:161-165: task i reads the head of the list.
RecordPinstateReads(i) ==
    /\ hvac.tasks[i].pc = "lindex"
    /\ hvac' = [hvac EXCEPT !.tasks[i].pc = "compare",
                            !.tasks[i].latest = lindex_option(hvac.pinstate_history).val]
    /\ UNCHANGED <<thermostatd, mq, ctl>>

\* hvac/mod.rs:166-177: task i pushes its entry if the head it read was of
\* another call, and ends.
RecordPinstateWrites(i) ==
    /\ hvac.tasks[i].pc = "compare"
    /\ LET state == payload_str(hvac.tasks[i].state) IN
       hvac' = [hvac EXCEPT !.tasks[i].pc = "done",
                            !.pinstate_history =
                                IF differs(hvac.tasks[i].latest, state)
                                THEN lpush(@, [state |-> state, now |-> hvac.tasks[i].now])
                                ELSE @]
    /\ UNCHANGED <<thermostatd, mq, ctl>>

\* The probe, its handler and the probe historian.
HistorianNext ==
    \/ HvacClock
    \/ \E payload \in ProbePayloads : OnProbeMessage(payload)
    \/ OnProbeMessageStamp
    \/ HistorianWakes
    \/ HistorianReadsValue
    \/ HistorianReadsTime
    \/ HistorianRecords

HistorianSpec == HvacInit /\ [][HistorianNext]_vars

\* The pinstate handler and the tasks it spawns.
PinstateNext ==
    \/ HvacClock
    \/ \E payload \in PinstatePayloads : OnPinstate(payload)
    \/ \E i \in DOMAIN hvac.tasks : RecordPinstateReads(i)
    \/ \E i \in DOMAIN hvac.tasks : RecordPinstateWrites(i)

PinstateSpec == HvacInit /\ [][PinstateNext]_vars

\* Every message on the probe's topic so far carried the same number.
SameReading ==
    /\ hvac.delivered # << >>
    /\ \A i \in DOMAIN hvac.delivered : hvac.delivered[i] = hvac.delivered[1] /\ ~hvac.delivered[i].nan

\* C22: while the probe's topic has delivered one and the same value, once
\* or several times in a row, the historian has added at most one entry for
\* it, and exactly one once a pass that began after the value was stored is
\* complete.
C22_UnchangedReadingOneEntry ==
    SameReading =>
        /\ hvac.pushed <= 1
        /\ hvac.seen >= 1 => hvac.pushed = 1

\* C29: the (value, last_update) pair the historian reads for an entry is a
\* pair one single update wrote.
C29_ReadingAtomicWithTimestamp ==
    hvac.historian.pc = "record" =>
        <<hvac.historian.value, hvac.historian.time>> \in hvac.written

\* C23: pinstate_history has no two adjacent entries for the same call,
\* whatever the messages were and however the tasks recording them
\* interleave.
C23_PinstateNoAdjacentRepeats ==
    \A i \in 1..(Len(hvac.pinstate_history) - 1) :
        hvac.pinstate_history[i].state # hvac.pinstate_history[i + 1].state

\* C24: each history list has at most MAX_LEN entries and its newest entry
\* at index 0.
C24_HistoryBoundedNewestFirst ==
    /\ Len(hvac.probe_history) <= MAX_LEN
    /\ Len(hvac.pinstate_history) <= MAX_LEN
    /\ \A i \in DOMAIN hvac.probe_history : hvac.probe_history[i].time <= hvac.probe_history[1].time
    /\ \A i \in DOMAIN hvac.pinstate_history : hvac.pinstate_history[i].now <= hvac.pinstate_history[1].now

\* ============================================ the monolith's LuaController
\* src/src/hvac/mixer/lua_controller.rs.  A call goes through these
\* positions: "lock" (validate only: the caller waits for the state mutex),
\* "blocked" (the caller waits for room in the queue), "queued", "spawned"
\* (the executor has spawned the closure on its LocalSet), "run" (the
\* closure is running on the executor's thread), "yielded" (it awaits inside
\* the script call), "result" (validate only: the closure is done and the
\* caller still holds the mutex), "done".

\* Calls made in a run.
MaxCalls == 3
\* lua_controller.rs:40: channel::<LuaExecTask>(16) in the source; the queue
\* of the model holds this many closures.
QueueCapacity == 1

\* The public calls; all but validate work on the live LuaControllerState.
ScriptCalls == {"validate", "load", "evaluate", "tick", "on_mqtt"}

\* A mutex that is handed out while it is held.
can_lock_held(c) == TRUE

\* tokio::sync::Mutex::lock (lua_controller.rs:100, 118, 127, 146, 155):
\* it is acquired when nobody holds it.
can_lock(c) == ~c.state.some

\* lua_controller.rs:62-70 exec_lua_thread: task_tx.send(..).await, and
\* 79-85 fire_lua_thread: task_tx.blocking_send(..): the closure of call i
\* is queued if the queue has room; if not, the caller waits for room.
send(c, i) ==
    IF Len(c.queue) < QueueCapacity
    THEN [c EXCEPT !.queue = Append(@, i), !.calls[i].pc = "queued"]
    ELSE [c EXCEPT !.calls[i].pc = "blocked"]

\* The controller after LuaController::default().
ControllerInit ==
    /\ NotStarted
    /\ store = [script |-> Absent, timed |-> Absent, oneshot |-> Absent]
    /\ mq = NoAdapter
    /\ hvac = NoHvac
    /\ ctl = NoController
    /\ mixer = NoMixer

\* lua_controller.rs:115-162: load, evaluate, tick or on_mqtt is called and
\* sends its closure.
CallLive(kind) ==
    /\ Len(ctl.calls) < MaxCalls
    /\ LET i == Len(ctl.calls) + 1 IN
       ctl' = send([ctl EXCEPT !.calls = Append(@, [kind |-> kind, pc |-> "send"])], i)
    /\ UNCHANGED <<thermostatd, mq, hvac>>

\* lua_controller.rs:94-100: validate is called and asks for the mutex.
CallValidate ==
    /\ Len(ctl.calls) < MaxCalls
    /\ ctl' = [ctl EXCEPT !.calls = Append(@, [kind |-> "validate", pc |-> "lock"])]
    /\ UNCHANGED <<thermostatd, mq, hvac>>

\* lua_controller.rs:100-111: validate gets the mutex and sends its closure.
ValidateLocks(i) ==
    /\ ctl.calls[i].pc = "lock"
    /\ can_lock(ctl)
    /\ ctl' = send([ctl EXCEPT !.state = Some(i)], i)
    /\ UNCHANGED <<thermostatd, mq, hvac>>

\* lua_controller.rs:62-70, 79-85: room in the queue ends the wait of a
\* caller.
SendResumes(i) ==
    /\ ctl.calls[i].pc = "blocked"
    /\ Len(ctl.queue) < QueueCapacity
    /\ ctl' = send(ctl, i)
    /\ UNCHANGED <<thermostatd, mq, hvac>>

\* lua_controller.rs:45-47: the executor, its thread not running a closure,
\* takes the next closure and spawns it on the LocalSet.
ExecutorReceives ==
    /\ ~ctl.thread.some
    /\ ctl.queue # << >>
    /\ ctl' = [ctl EXCEPT !.queue = Tail(@), !.calls[Head(ctl.queue)].pc = "spawned"]
    /\ UNCHANGED <<thermostatd, mq, hvac>>

\* lua_controller.rs:117-119, 126-128, 145-147, 154-156: the closure of a
\* live call gets the mutex and starts the script call.
LiveCallStarts(i) ==
    /\ ctl.calls[i].pc = "spawned"
    /\ ctl.calls[i].kind # "validate"
    /\ ~ctl.thread.some
    /\ can_lock(ctl)
    /\ ctl' = [ctl EXCEPT !.state = Some(i), !.thread = Some(i), !.calls[i].pc = "run"]
    /\ UNCHANGED <<thermostatd, mq, hvac>>

\* lua_controller.rs:103-109: validate's closure starts on a fresh
\* LuaControllerState.
ValidateStarts(i) ==
    /\ ctl.calls[i].pc = "spawned"
    /\ ctl.calls[i].kind = "validate"
    /\ ~ctl.thread.some
    /\ ctl' = [ctl EXCEPT !.thread = Some(i), !.calls[i].pc = "run"]
    /\ UNCHANGED <<thermostatd, mq, hvac>>

\* lua_controller.rs:179-209: exec_async / call_async awaits inside the
\* script call (the script called an async function of the host).
CallYields(i) ==
    /\ ctl.calls[i].pc = "run"
    /\ ctl' = [ctl EXCEPT !.thread = None, !.calls[i].pc = "yielded"]
    /\ UNCHANGED <<thermostatd, mq, hvac>>

CallResumes(i) ==
    /\ ctl.calls[i].pc = "yielded"
    /\ ~ctl.thread.some
    /\ ctl' = [ctl EXCEPT !.thread = Some(i), !.calls[i].pc = "run"]
    /\ UNCHANGED <<thermostatd, mq, hvac>>

\* The script call returns: a live call's closure drops the guard
\* (lua_controller.rs:119-120), validate's closure sends its result (66).
CallEnds(i) ==
    /\ ctl.calls[i].pc = "run"
    /\ ctl' = IF ctl.calls[i].kind = "validate"
              THEN [ctl EXCEPT !.thread = None, !.calls[i].pc = "result"]
              ELSE [ctl EXCEPT !.thread = None, !.state = None, !.calls[i].pc = "done"]
    /\ UNCHANGED <<thermostatd, mq, hvac>>

\* lua_controller.rs:110-113: validate returns and drops the guard.
ValidateReturns(i) ==
    /\ ctl.calls[i].pc = "result"
    /\ ctl' = [ctl EXCEPT !.state = None, !.calls[i].pc = "done"]
    /\ UNCHANGED <<thermostatd, mq, hvac>>

ControllerNext ==
    \/ \E kind \in ScriptCalls \ {"validate"} : CallLive(kind)
    \/ CallValidate
    \/ \E i \in DOMAIN ctl.calls : ValidateLocks(i)
    \/ \E i \in DOMAIN ctl.calls : SendResumes(i)
    \/ ExecutorReceives
    \/ \E i \in DOMAIN ctl.calls : LiveCallStarts(i)
    \/ \E i \in DOMAIN ctl.calls : ValidateStarts(i)
    \/ \E i \in DOMAIN ctl.calls : CallYields(i)
    \/ \E i \in DOMAIN ctl.calls : CallResumes(i)
    \/ \E i \in DOMAIN ctl.calls : CallEnds(i)
    \/ \E i \in DOMAIN ctl.calls : ValidateReturns(i)

ControllerSpec == ControllerInit /\ [][ControllerNext]_vars

\* The calls that have started their script call and not ended it.
Executing == { i \in DOMAIN ctl.calls : ctl.calls[i].pc \in {"run", "yielded"} }

C26_QueueFullFailsFast ==
    \A i \in DOMAIN ctl.calls : ctl.calls[i].pc # "blocked"

\* ------------------------------------------------------ testing a script
\* test_script as its two callers of thermostatd run it: the script/test
\* handler of the bus-event task and the hot reload of the decision task.
\* The monolith's validate (lua_controller.rs:94-113) hands its script a
\* MixerState, which has no bus client.

\* main.rs:35-36
SCRIPT_DATA_TEST == "home/thermostatd/script/test"
SCRIPT_DATA_TEST_ERROR == "home/thermostatd/script/test/error"

\* Script texts sent for a test or set as the script.
TestedScripts == {"cool", "syntax", "probe", "subscriber"}
\* Payloads of script/test.
TestPayloads == {[utf8 |-> TRUE, text |-> s] : s \in TestedScripts} \cup {[utf8 |-> FALSE]}
\* Payloads on a topic a script subscribed to.
DoorPayloads == {[utf8 |-> TRUE, text |-> "open"], [utf8 |-> FALSE]}

\* Both tasks running, the script heat loaded, and the decision task having
\* just seen a new script version (scripting.rs:44-45).
TestInit ==
    /\ now = 0
    /\ msgs = 0
    /\ last_call = "Off"
    /\ timed_override = None
    /\ oneshot_override = None
    /\ \E s \in TestedScripts : script = [text |-> s, version |-> 2]
    /\ probe_values \in {[p \in ProbeNames |-> None], [p \in ProbeNames |-> Some(Num(19))]}
    /\ store = [script |-> script.text, timed |-> to_json(None), oneshot |-> to_json(None)]
    /\ lua = Exec(FreshLua, "heat")
    /\ lua_at_reload = lua
    /\ last_script_timestamp = script.version
    /\ next_evaluation = 0
    /\ next_tick = 0
    /\ state_script = script
    /\ next_call = None
    /\ pc = "test"
    /\ bus = Idle
    /\ retained = [t \in RetainedTopics |->
                      IF t = SCRIPT_DATA THEN [text |-> script.text] ELSE Absent]
    /\ relay = Absent
    /\ pubs = << >>
    /\ cyc = NoCycle
    /\ sent = << >>
    /\ hist = NoMessage
    /\ sup = Running
    /\ mq = NoAdapter
    /\ hvac = NoHvac
    /\ ctl = NoController
    /\ proxy = NoProxy
    /\ mixer = NoMixer

\* mqtt.rs:89-141: the test runs against a ScriptState made of the live
\* client and a copy of CommonState; the copy's cells are its own, its
\* retained_keys is the Arc the live state holds.  The verdict is published
\* without the retain flag.
OnScriptDataTest(p) ==
    LET text == from_utf8(p) IN
    /\ Poll(SCRIPT_DATA_TEST, p)
    /\ IF text.ok
       THEN /\ \E ok \in test_script(text.val, probe_values) :
                  sent' = <<Msg(SCRIPT_DATA_TEST_ERROR, FALSE,
                                IF ok THEN [success |-> TRUE]
                                ELSE [success |-> FALSE, error |-> "test_script"])>>
            /\ proxy' = test_script_proxy(proxy, text.val)
       ELSE /\ sent' = <<Msg(SCRIPT_DATA_TEST_ERROR, FALSE,
                             [success |-> FALSE, error |-> "Utf8Error"])>>
            /\ UNCHANGED proxy
    /\ UNCHANGED <<now, common, store, locals, pc, bus, lua_at_reload, retained, relay, pubs,
                   cyc, sup, mq, hvac, ctl, mixer>>

\* mqtt.rs:232-248: a message on a topic the client subscribed to for a
\* script; its text becomes the topic's value in retained_keys.
OnRetainedTopic(topic, p) ==
    LET value == from_utf8(p) IN
    /\ topic \in proxy.subscriptions
    /\ Poll(topic, p)
    /\ sent' = << >>
    /\ proxy' = IF topic \in DOMAIN proxy.retained_keys /\ value.ok
                THEN [proxy EXCEPT !.retained_keys = (topic :> value.val) @@ proxy.retained_keys]
                ELSE proxy
    /\ UNCHANGED <<now, common, store, locals, pc, bus, lua_at_reload, retained, relay, pubs,
                   cyc, sup, mq, hvac, ctl, mixer>>

TestNext ==
    \/ ReloadTest
    \/ \E p \in TestPayloads : OnScriptDataTest(p)
    \/ \E p \in DoorPayloads : OnRetainedTopic("home/door", p)

TestSpec == TestInit /\ [][TestNext]_vars

\* The step is a whole run of test_script, by either caller.
TestsScript == (pc = "test" /\ pc' # "test") \/ Handles(SCRIPT_DATA_TEST)

\* C27: a test of a script, on script/test or during the hot reload, leaves
\* the live interpreter's globals, every CommonState cell, retained_keys and
\* the set of bus subscriptions as they were before it.
C27_TestLeavesLiveStateUnchanged ==
    [][ TestsScript => (lua' = lua /\ UNCHANGED common /\ proxy' = proxy) ]_vars

\* What a test does keep: the live interpreter and the CommonState cells.
TestKeepsInterpreterAndCells ==
    [][ TestsScript => (lua' = lua /\ UNCHANGED common) ]_vars


\* ---------------------------------- override cells and the decision cycle
\* The step is one of the decision task, not the bus task's.
DecisionStep == bus' = bus /\ msgs' = msgs

\* C28: every change a decision cycle makes to an override cell is a clear
\* of the value the cell holds at that instant, which is the value the
\* cycle read and judged (a timed override whose expiration is not later
\* than the cycle's time; a oneshot override whose comparison does not
\* match the probe value the cycle read); and a cycle that commits a timed
\* override's command commits the command of the value the cell holds then.
\* So a value written by a set message is never cleared on the judgement
\* of an older one.
C28_OverrideClearsLinearizable ==
    [][ /\ (DecisionStep /\ timed_override' # timed_override)
           => /\ timed_override.some
              /\ timed_override' = None
              /\ cyc'.timed = timed_override
              /\ timed_override.val.expiration <= cyc'.at
              /\ "timed" \in cyc'.cleared
        /\ (DecisionStep /\ oneshot_override' # oneshot_override)
           => /\ oneshot_override.some
              /\ oneshot_override' = None
              /\ cyc'.oneshot = oneshot_override
              /\ cyc'.probe = ProbeGet(probe_values, oneshot_override.val.probe)
              /\ ~Matches(oneshot_override.val, cyc'.probe)
              /\ "oneshot" \in cyc'.cleared
        /\ (DecisionStep /\ TimedStep /\ pc' = "sched" /\ cyc'.layers = <<"timed">>)
           => /\ cyc'.timed = timed_override
              /\ timed_override.some
              /\ timed_override' = timed_override
              /\ last_call' = timed_override.val.command
      ]_vars

\* C28 witness: a cycle has cleared the expired timed override it read, the
\* bus task has written a new one before the cycle's end, and the cell holds
\* the new one.
C28_Witness ==
    /\ pc \in {"oneshot", "evaluate", "commit", "sched"}
    /\ "timed" \in cyc.cleared
    /\ cyc.timed.some
    /\ timed_override.some
    /\ timed_override # cyc.timed


\* ------------------------------------------------------ the relay command
\* The step ends an evaluation cycle: the relay command is handed to the
\* client and next_evaluation is about to be set.
CycleEnds == pc # "sched" /\ pc' = "sched"

\* C30: the step that ends an evaluation cycle publishes, as the cycle's
\* last message, the lowercase word of last_call, not retained, on the topic
\* home/thermostat/hvac/remotestate/set.
C30_RelayCommandOnHomeTopic ==
    [][ CycleEnds
        => /\ pubs' # << >>
           /\ pubs'[Len(pubs')] = Msg("home/thermostat/hvac/remotestate/set", FALSE, payload_str(last_call'))
           /\ pubs'[Len(pubs')].payload \in {"off", "heat", "cool"} ]_vars

\* What the cycle does publish: the same message on the topic the daemon's
\* constant names.
RelayCommandOnConfiguredTopic ==
    [][ CycleEnds
        => /\ pubs' # << >>
           /\ pubs'[Len(pubs')] = Msg(HVAC_REMOTESTATE_SET, FALSE, payload_str(last_call'))
           /\ pubs'[Len(pubs')].payload \in {"off", "heat", "cool"} ]_vars


\* ------------------------------------------- last_call and the relay topic
\* C32: after the first evaluation cycle (next_evaluation has been set ahead
\* by one) last_call changes only in the step
\* that ends an evaluation cycle, the step that publishes it on the
\* relay-command topic; so it stays the command published last.
C32_LastCallIsLastRelayCommand ==
    [][ (next_evaluation >= EvalPeriod /\ last_call' # last_call)
        => (CycleEnds /\ relay' = payload_str(last_call')) ]_vars


\* ------------------------------------------------- the version recorded
\* C34: last_script_timestamp, the version the decision task holds as
\* loaded, changes only in the step in which the reload of that version has
\* passed test, load and init and reports success; a reload that fails
\* leaves it at the version loaded before.
C34_VersionRecordedAfterSuccess ==
    [][ last_script_timestamp' # last_script_timestamp
        => /\ pubs' # << >>
           /\ pubs'[Len(pubs')] = ScriptSuccess
           /\ last_script_timestamp' = state_script.version ]_vars


\* ------------------------------------------------ the pace of the loop
\* C35: an iteration of the decision loop starts no earlier than the tick
\* set one TickPeriod after the start of the one before; every iteration
\* does the reload check and goes on into the script tick, a reload leading
\* to the tick whatever its outcome; a relay command is published only by
\* an iteration that finds next_evaluation not later than its clock; and
\* next_evaluation changes, after the start, only when an evaluation ends
\* and then to EvalPeriod after the clock.  So the relay command published
\* next is published at least EvalPeriod after this one.
C35_EvaluationEveryTenSeconds ==
    [][ /\ (pc = "sleep" /\ pc' # "sleep")
           => (now' >= next_tick /\ next_tick' = now' + TickPeriod)
        /\ (pc \in {"top", "sleep"} /\ pc' \notin {"top", "sleep"})
           => (pc' = "test" \/ TickRan)
        /\ (pc \in {"test", "load", "init"} /\ pc' \notin {"test", "load", "init"})
           => pc' = "tick"
        /\ CycleEnds
           => (cyc'.at = now' /\ next_evaluation <= now')
        /\ (next_evaluation' # next_evaluation)
           => (pc = "boot" \/ (pc = "sched" /\ next_evaluation' = now + EvalPeriod))
        /\ Ran("sched")
           => next_evaluation' = now + EvalPeriod
      ]_vars

\* C35 witness: the second relay command of a run has been published, one
\* EvalPeriod or more after the first.
C35_Witness ==
    /\ pc = "sched"
    /\ next_evaluation >= EvalPeriod
    /\ now >= next_evaluation
    /\ RelayPubs # << >>


\* ---------------------------------------------- the first history entry
\* C36: the end of a historian pass over a probe with a reading leaves the
\* entry built from the value and the time it read at the head of the
\* probe's list whenever the list had another head or none.
C36_EntryPushedUnlessEqualToHead ==
    [][ (hvac.historian.pc = "record" /\ hvac'.historian.pc = "sleep")
        => LET data == [time |-> hvac.historian.time, value |-> hvac.historian.value] IN
           (hvac.probe_history = << >> \/ hvac.probe_history[1] # data)
           => (hvac'.probe_history # << >> /\ hvac'.probe_history[1] = data) ]_vars

\* What a pass does when the list has a head.
EntryPushedUnlessEqualToHeadOfNonEmpty ==
    [][ (hvac.historian.pc = "record" /\ hvac'.historian.pc = "sleep"
         /\ hvac.probe_history # << >>)
        => LET data == [time |-> hvac.historian.time, value |-> hvac.historian.value] IN
           hvac'.probe_history[1] = data ]_vars


\* -------------------------------------------------- persist before apply
\* The bus task leaves program point p in this step.
BusRan(p) == bus.pc = p /\ bus'.pc # p

TakenOut ==
    { k \in {"timed", "oneshot"} :
        /\ store[k] # Absent
        /\ IF k = "timed"
           THEN timed_override = None
                /\ from_str_timed(store[k]).ok /\ from_str_timed(store[k]).val.some
           ELSE oneshot_override = None
                /\ from_str_oneshot(store[k]).ok /\ from_str_oneshot(store[k]).val.some }

\* main.rs:99-102: an await of task who returns an error, try_join! drops
\* both futures and run_thermostat returns.  The locals of the tasks end
\* with them; the next run creates them anew (scripting.rs:26-37).
RunReturns(who) ==
    /\ sup.pc = "running"
    /\ who \in sup.tasks
    /\ sup.returns < MaxReturns
    /\ sup' = [sup EXCEPT !.pc = "returned", !.returns = @ + 1,
                          !.tasks = AfterTaskError(sup.tasks, who),
                          !.cleared = @ \cup TakenOut]
    /\ lua' = FreshLua
    /\ lua_at_reload' = FreshLua
    /\ last_script_timestamp' = 0
    /\ next_evaluation' = 0
    /\ next_tick' = 0
    /\ state_script' = [text |-> "", version |-> 0]
    /\ next_call' = None
    /\ pc' = "boot"
    /\ bus' = Idle
    /\ pubs' = << >>
    /\ cyc' = NoCycle
    /\ UNCHANGED <<now, msgs, common, store, retained, relay, sent, hist, mq, hvac, ctl, proxy,
                   mixer>>

\* The tasks run only while the supervisor waits for run_thermostat.
InRun == sup.pc = "running"

RestartNext ==
    \/ Open
    \/ HydrateScript
    \/ HydrateTimed
    \/ HydrateOneshot
    \/ Supervise
    \/ Wake
    \/ \E who \in {"bus", "decision"} : RunReturns(who)
    \/ InRun /\ Boot
    \/ InRun /\ LoopTop
    \/ InRun /\ ReloadTest
    \/ InRun /\ ReloadLoad
    \/ InRun /\ ReloadInit
    \/ InRun /\ ScriptTick
    \/ InRun /\ EvalOneshot
    \/ InRun /\ EvalScript
    \/ InRun /\ EvalSchedule
    \/ InRun /\ \E p \in RemotePayloads : RecvRemotestate(p)
    \/ InRun /\ \E v \in Readings : RecvProbe(v)

RestartSpec == SupInit /\ [][RestartNext]_vars

\* The step ends an evaluation cycle with the command of the timed override.
HonorsTimed == CycleEnds /\ cyc'.layers = <<"timed">>
\* The step ends an evaluation cycle with the command of the oneshot override.
HonorsOneshot == CycleEnds /\ cyc'.layers[Len(cyc'.layers)] = "oneshot"

\* C38: no set message having been processed, a decision cycle never acts
\* on an override that a decision cycle of an earlier run has cleared.
C38_ClearedOverrideStaysCleared ==
    [][ /\ HonorsTimed => "timed" \notin sup.cleared
        /\ HonorsOneshot => "oneshot" \notin sup.cleared ]_vars

\* What holds of the timed override: once cleared it is not acted on again.
ClearedTimedOverrideStaysCleared ==
    [][ HonorsTimed => "timed" \notin sup.cleared ]_vars


\* The step ends the first evaluation cycle of a run that a restart began:
\* Boot has scheduled it one tick after the restart (scripting.rs:35-37).
FirstCycleEnds ==
    /\ CycleEnds
    /\ sup.last_restart.some
    /\ next_evaluation = sup.last_restart.val + TickPeriod

\* run_thermostat has built its CommonState and hydrates it next.
NewCommonState ==
    sup.pc = "hydrate_script" =>
        /\ last_call = "Off"
        /\ timed_override = None
        /\ oneshot_override = None
        /\ \A p \in ProbeNames : probe_values[p] = None
        /\ proxy.retained_keys = << >>

\* The first evaluation of a run, reaching a oneshot override without a
\* reading of its probe, takes the override out of its cell.
FirstCycleClearsBlindOneshot ==
    (FirstCycleEnds /\ cyc'.oneshot.some /\ cyc'.probe = None)
        => ("oneshot" \in cyc'.cleared /\ oneshot_override' = None)

\* C39: every run starts from a new CommonState (last_call Off, no probe
\* values, no retained keys); the first relay command after a restart is
\* "off" unless a layer of that first evaluation yields a call; and that
\* evaluation clears a re-hydrated oneshot override whose probe has not
\* reported yet.
C39_FirstEvaluationAfterRestart ==
    /\ []NewCommonState
    /\ [][ /\ (FirstCycleEnds /\ next_call' = None) => relay' = payload_str("Off")
           /\ FirstCycleClearsBlindOneshot ]_vars

\* What holds of a restart: the new CommonState, the blind oneshot override
\* cleared, and the first relay command being last_call as the bus-event
\* task left it when no layer yields a call.
NewStateAndBlindOneshotCleared ==
    /\ []NewCommonState
    /\ [][ /\ (FirstCycleEnds /\ next_call' = None) => relay' = payload_str(last_call)
           /\ FirstCycleClearsBlindOneshot ]_vars


\* ------------------------------------------------ the mixer: timed_program
\* What the specifications of the mixer leave alone.
but_mixer == <<thermostatd_but_mixer, mq, hvac, ctl>>

\* The keys a script's program table can have, each the five characters of
\* an "HH:MM" string.
ProgramKeys ==
    { <<"0", "6", ":", "0", "0">>, <<"1", "8", ":", "0", "0">>, <<"2", "2", ":", "3", "0">> }
\* The Lua functions a table can map a key to, and what a call of each
\* returns (nil is None).
ProgramFunctions == {"day", "night", "idle"}
call_async(f) ==
    CASE f = "day" -> Some("heat")
      [] f = "night" -> Some("cool")
      [] OTHER -> None
\* The tables a script can pass: any of the keys, each with any function.
ProgramTables == UNION { [K -> ProgramFunctions] : K \in SUBSET ProgramKeys }
\* chrono::Local::now().time() when timed_program reads it, in seconds since
\* midnight: the instants of the keys, the seconds next to them, and the
\* ends of the day.
LocalTimes == {0, 21599, 21600, 21601, 64799, 64800, 64801, 81000, 86399}

\* The value of a decimal digit, -1 for any other character.
digit(c) ==
    CASE c = "0" -> 0 [] c = "1" -> 1 [] c = "2" -> 2 [] c = "3" -> 3 [] c = "4" -> 4
      [] c = "5" -> 5 [] c = "6" -> 6 [] c = "7" -> 7 [] c = "8" -> 8 [] c = "9" -> 9
      [] OTHER -> -1

\* NaiveTime::parse_from_str(time_str, "%H:%M") for a string of five
\* characters (lua_controller.rs:234): the time in seconds since midnight.
parse_from_str(time_str) ==
    IF /\ Len(time_str) = 5
       /\ time_str[3] = ":"
       /\ \A i \in {1, 2, 4, 5} : digit(time_str[i]) >= 0
    THEN LET h == 10 * digit(time_str[1]) + digit(time_str[2])
             m == 10 * digit(time_str[4]) + digit(time_str[5])
         IN IF h < 24 /\ m < 60 THEN Ok(3600 * h + 60 * m) ELSE Err("range")
    ELSE Err("format")

\* lua_controller.rs:225-242: the BTreeMap built from the pairs of the
\* table, a pair whose key does not parse being skipped.
program_table(program) ==
    LET valid == { k \in DOMAIN program : parse_from_str(k).ok } IN
    [ time \in { parse_from_str(k).val : k \in valid } |->
        program[CHOOSE k \in valid : parse_from_str(k).val = time] ]

\* The keys of a BTreeMap in the order keys() yields them.
RECURSIVE keys(_)
keys(times) ==
    IF times = {} THEN << >>
    ELSE LET least == CHOOSE t \in times : \A u \in times : t <= u IN
         <<least>> \o keys(times \ {least})

\* lua_controller.rs:253-259: the loop over the keys in ascending order, from
\* the i-th on, active_time being where the keys before it have left it.
RECURSIVE scan(_, _, _, _)
scan(ks, i, current_time, active_time) ==
    IF i > Len(ks) THEN active_time
    ELSE IF ks[i] < current_time THEN scan(ks, i + 1, current_time, ks[i])
    ELSE active_time

\* MixerState::timed_program, lua_controller.rs:224-262 (ScriptState's,
\* scripting.rs:274-306, selects in the same way): the functions it calls
\* and what it returns.
timed_program(program, current_time) ==
    LET table == program_table(program) IN
    IF DOMAIN table = {} THEN [called |-> << >>, returned |-> None]
    ELSE LET ks == keys(DOMAIN table)
             active_time == scan(ks, 1, current_time, ks[Len(ks)])
         IN [called |-> <<table[active_time]>>, returned |-> call_async(table[active_time])]

\* A script about to call state:timed_program with a table.
ProgramInit ==
    /\ NotStarted
    /\ store = [script |-> Absent, timed |-> Absent, oneshot |-> Absent]
    /\ mq = NoAdapter
    /\ hvac = NoHvac
    /\ ctl = NoController
    /\ \E program \in ProgramTables :
          mixer = [pc |-> "script", program |-> program, at |-> 0, called |-> << >>,
                   returned |-> None]

\* The script's call of timed_program, the local time being t.
CallTimedProgram(t) ==
    /\ mixer.pc = "script"
    /\ LET r == timed_program(mixer.program, t) IN
       mixer' = [mixer EXCEPT !.pc = "returned", !.at = t, !.called = r.called,
                              !.returned = r.returned]
    /\ UNCHANGED but_mixer

ProgramNext == \E t \in LocalTimes : CallTimedProgram(t)

ProgramSpec == ProgramInit /\ [][ProgramNext]_vars

\* The times of the keys of the called table.
ProgramTimes == { parse_from_str(k).val : k \in DOMAIN mixer.program }
\* The function the table has for the key of time t.
FunctionAt(t) == mixer.program[CHOOSE k \in DOMAIN mixer.program : parse_from_str(k).val = t]
\* The greatest of a non-empty set of times.
Greatest(times) == CHOOSE t \in times : \A u \in times : u <= t

\* The call has called exactly the function of the key of time t and
\* returned its result.
CalledExactly(t) ==
    /\ mixer.called = <<FunctionAt(t)>>
    /\ mixer.returned = call_async(FunctionAt(t))

\* C31: timed_program calls exactly the function of the greatest key <= t,
\* or of the greatest key when no key is <= t, and returns its result; for
\* an empty table it returns nil without calling anything.
C31_TimedProgramPicksLatestKeyNotAfterNow ==
    mixer.pc = "returned" =>
        IF ProgramTimes = {} THEN mixer.called = << >> /\ mixer.returned = None
        ELSE LET upto == { k \in ProgramTimes : k <= mixer.at } IN
             CalledExactly(Greatest(IF upto = {} THEN ProgramTimes ELSE upto))

\* What holds: the function called is that of the greatest key before t,
\* a key at t itself not counting.
TimedProgramPicksLatestKeyBeforeNow ==
    mixer.pc = "returned" =>
        IF ProgramTimes = {} THEN mixer.called = << >> /\ mixer.returned = None
        ELSE LET before == { k \in ProgramTimes : k < mixer.at } IN
             CalledExactly(Greatest(IF before = {} THEN ProgramTimes ELSE before))


\* --------------------------------------------------- the mixer: get_query
\* Number of PUT requests on the oneshot setpoint and of queries of the
\* mixer in one behaviour.
MaxPuts == 2
MaxQueries == 2

\* The bodies a PUT can carry (Option<OneshotSetpointState>) and the values
\* of the primary probe.
SetpointStates ==
    { [setpoint |-> Num(20), comparison |-> "Greater", action |-> "Heat"],
      [setpoint |-> Num(24), comparison |-> "Less", action |-> "Cool"] }
PutBodies == {None} \cup { Some(sp) : sp \in SetpointStates }
PrimaryValues == {None, Some(Num(19)), Some(Num(21)), Some(Num(25))}

\* mixer/mod.rs:87-100: the match that finds the setpoint completed.
setpoint_completed(comparison, ord) ==
    \/ comparison = "Less" /\ ord = Some("Less")
    \/ comparison = "Greater" /\ ord = Some("Greater")

\* The mixer after MixerState::new, no query running.
MixerInit ==
    /\ NotStarted
    /\ store = [script |-> Absent, timed |-> Absent, oneshot |-> Absent]
    /\ mq = NoAdapter
    /\ hvac = NoHvac
    /\ ctl = NoController
    /\ mixer = [pc |-> "idle", oneshot_setpoint |-> None, setpoint |-> None,
                last_result |-> "Off", puts |-> 0, queries |-> 0]

\* mixer/mod.rs:59-66: query stores what get_query returned in last_result.
query_returns(m, request) ==
    [m EXCEPT !.pc = "idle", !.setpoint = None,
              !.last_result = IF request.some THEN request.val ELSE @]

\* api/thermostat/oneshot_setpoint.rs:18-30: PUT stores the body in the cell.
Put(new_state) ==
    /\ mixer.puts < MaxPuts
    /\ mixer' = [mixer EXCEPT !.oneshot_setpoint = new_state, !.puts = @ + 1]
    /\ UNCHANGED but_mixer

\* mixer/mod.rs:68-77: get_query starts; an override pulse answers it, or
\* it awaits the fan state.
QueryStarts(pulse) ==
    /\ mixer.pc = "idle"
    /\ mixer.queries < MaxQueries
    /\ LET m == [mixer EXCEPT !.queries = @ + 1] IN
       mixer' = IF pulse.some THEN query_returns(m, pulse)
                ELSE [m EXCEPT !.pc = "big_succ"]
    /\ UNCHANGED but_mixer

\* mixer/mod.rs:75-84: the fan state arrives; with the fan off the cell is
\* read and, a setpoint being there, the primary probe awaited.
BigSuccReturns(running) ==
    /\ mixer.pc = "big_succ"
    /\ mixer' = IF running THEN query_returns(mixer, Some("Off"))
                ELSE IF mixer.oneshot_setpoint.some
                THEN [mixer EXCEPT !.pc = "probe", !.setpoint = mixer.oneshot_setpoint]
                ELSE [mixer EXCEPT !.pc = "ruleset"]
    /\ UNCHANGED but_mixer

\* mixer/mod.rs:84-104: the probe arrives; a completed setpoint is cleared
\* with set(None), any other is executed.
ProbeReturns(primary_probe) ==
    /\ mixer.pc = "probe"
    /\ LET setpoint == mixer.setpoint.val IN
       mixer' =
          IF ~primary_probe.some THEN [mixer EXCEPT !.pc = "ruleset"]
          ELSE IF setpoint_completed(setpoint.comparison,
                                     PartialCmp(primary_probe.val, setpoint.setpoint))
          THEN [mixer EXCEPT !.pc = "ruleset", !.oneshot_setpoint = None]
          ELSE query_returns(mixer, Some(setpoint.action))
    /\ UNCHANGED but_mixer

\* mixer/mod.rs:106-111: the timed rule set answers or does not.
RulesetReturns(request) ==
    /\ mixer.pc = "ruleset"
    /\ mixer' = query_returns(mixer, request)
    /\ UNCHANGED but_mixer

MixerNext ==
    \/ \E new_state \in PutBodies : Put(new_state)
    \/ \E pulse \in {None, Some("Heat")} : QueryStarts(pulse)
    \/ \E running \in BOOLEAN : BigSuccReturns(running)
    \/ \E primary_probe \in PrimaryValues : ProbeReturns(primary_probe)
    \/ \E request \in {None, Some("Cool")} : RulesetReturns(request)

MixerSpec == MixerInit /\ [][MixerNext]_vars

\* C40: the goal-reached clear of get_query removes only the setpoint that
\* get_query evaluated, never one a PUT has stored since get_query read.
C40_ClearRemovesOnlyEvaluatedSetpoint ==
    [][ (mixer.pc = "probe" /\ mixer'.oneshot_setpoint # mixer.oneshot_setpoint)
        => mixer.oneshot_setpoint = mixer.setpoint ]_vars

\* What holds: the clear leaves the cell empty, whatever it held.
ClearEmptiesCell ==
    [][ (mixer.pc = "probe" /\ mixer'.oneshot_setpoint # mixer.oneshot_setpoint)
        => mixer'.oneshot_setpoint = None ]_vars


\* ----------------------------------------------------- state.mqtt[topic]
\* The step subscribes a script to home/door for the first time.
SubscribesDoor == "home/door" \notin proxy.subscriptions /\ "home/door" \in proxy'.subscriptions
\* The step takes a message with a text payload from home/door.
ReceivesDoorText == msgs' # msgs /\ hist'.topic = "home/door" /\ hist'.payload.utf8

\* C33: state.mqtt[topic] is the payload of the last message received on
\* the topic since the script subscribed, and nil when there is none: the
\* topic never subscribed, or subscribed and nothing received yet.
C33_IndexIsLastPayloadOrNil ==
    /\ []("home/door" \notin proxy.subscriptions => MqttProxy_index(proxy, "home/door") = None)
    /\ [][ /\ SubscribesDoor => MqttProxy_index(proxy', "home/door") = None
           /\ ReceivesDoorText =>
                 MqttProxy_index(proxy', "home/door") = Some(hist'.payload.text) ]_vars

\* What holds: nil for a topic never subscribed, the empty string from the
\* subscription on, the text of the last message with a text payload after.
IndexIsLastTextOrEmpty ==
    /\ []("home/door" \notin proxy.subscriptions => MqttProxy_index(proxy, "home/door") = None)
    /\ [][ /\ SubscribesDoor => MqttProxy_index(proxy', "home/door") = Some("")
           /\ ReceivesDoorText =>
                 MqttProxy_index(proxy', "home/door") = Some(hist'.payload.text) ]_vars

====
